---- MODULE Spec2Model ----
(***************************************************************************)
(* A model of the segmented commit log of phaseharry/distributed-log:      *)
(* store (length-prefixed frames behind a buffered writer), index (fixed   *)
(* width entries in a pre-extended memory-mapped file), segment (one store *)
(* and one index) and Log (an ordered list of segments with rollover,      *)
(* prefix truncation and recovery by directory scan).                      *)
(*                                                                         *)
(* Environment: callers issue Append and Truncate only while the active    *)
(* segment's files are open (not after Close, Remove or Reset, and not     *)
(* after a Truncate that removed the active segment); Read is issued in    *)
(* every state.  File-system calls succeed unless the directory is gone or *)
(* the environment has injected a fault (see fault below).                 *)
(***************************************************************************)
EXTENDS Integers, Sequences, FiniteSets, TLC

\* ------------------------------------------------------------ constants
lenWidth == 8
offWidth == 4
posWidth == 8
entWidth == offWidth + posWidth
DefaultMaxBytes == 1024

\* ------------------------------------------------------------ bounds
\* Append calls issued against one directory before it is recreated.
MaxAppends == 4
\* Truncate is called with lowest in 0 .. MaxLowest.
MaxLowest == 4
\* Callers that invoke Log.Append concurrently.
NumCallers == 3
\* Requests a client sends on one ProduceStream.
MaxRequests == 2
\* A segment used on its own has an index cap of 1 .. MaxEntries entries.
MaxEntries == 2
\* newIndex / newStore calls on one file.
MaxOpens == 3

\* Record values offered to Append: byte strings of length 1 and 3.
Values == { <<7>>, <<7, 9, 7>> }
\* Configurations handed to NewLog (0 = "use the default").
Config(s, i, o) == [MaxStoreBytes |-> s, MaxIndexBytes |-> i, InitialOffset |-> o]
Configs == { Config(0, 0, 0), Config(26, 0, 0), Config(0, 24, 1), Config(0, 30, 0) }

None == -1
NoRecord == [value |-> <<>>, offset |-> None]

VARIABLES
  cfg,            \* Log.Config after NewLog's defaulting
  dirExists,      \* the directory l.Dir exists
  disk,           \* base offset -> the pair of files <base>.store / <base>.index
  objs,           \* base offset -> the *segment object of the live Log
  segments,       \* Log.segments: sequence of base offsets (pointers into objs)
  activeSegment,  \* Log.activeSegment: a base offset, or None for nil
  nAppends,       \* Append calls issued so far
  written,        \* offset -> value, of successful appends not yet truncated
  lastOff,        \* offset returned by the latest successful Append, or None
  last,           \* the latest operation and what it returned
  mu,             \* Log.mu: the caller holding the lock, or None
  pc,             \* concurrent caller -> where it is in Log.Append
  tv,             \* concurrent caller -> its record and local variables
  order,          \* the callers in the order they took Log.mu
  fault,          \* what the file system refuses: "none", "create" (a new
                  \* file cannot be created) or "write" (file writes fail)
  rpc,            \* the streaming RPC handlers and their client
  idx,            \* an index used on its own, with its file
  sto,            \* a store used on its own, with its file
  records         \* Log.records of the in-memory Log

vars == <<cfg, dirExists, disk, objs, segments, activeSegment,
          nAppends, written, lastOff, last, mu, pc, tv, order, fault, rpc,
          idx, sto, records>>

\* ------------------------------------------------------------ helpers
Min(S) == CHOOSE x \in S : \A y \in S : x <= y
Upd(f, k, v) == [x \in (DOMAIN f) \cup {k} |-> IF x = k THEN v ELSE f[x]]
Drop(f, K) == [x \in (DOMAIN f) \ K |-> f[x]]
SortedSeq(S) ==
  CHOOSE s \in [1..Cardinality(S) -> S] :
    \A i, j \in 1..Cardinality(S) : i < j => s[i] < s[j]

\* ------------------------------------------------------------ codec
\* proto.Marshal of api.Record{Value, Offset}: a field with the zero value is
\* left out; a present field is a tag byte, (for bytes) a length varint, and
\* the content.
VarintLen(n) == IF n < 128 THEN 1 ELSE 2
MarshalLen(rec) ==
  (IF Len(rec.value) = 0 THEN 0
   ELSE 1 + VarintLen(Len(rec.value)) + Len(rec.value))
  + (IF rec.offset = 0 THEN 0 ELSE 1 + VarintLen(rec.offset))

\* ------------------------------------------------------------ store
\* A store file is a sequence of frames; a frame is the 8-byte length prefix
\* followed by the marshalled record.
FrameLen(f) == lenWidth + MarshalLen(f)

RECURSIVE Bytes(_)
Bytes(frames) ==
  IF frames = <<>> THEN 0 ELSE FrameLen(Head(frames)) + Bytes(Tail(frames))

\* store.Read's two File.ReadAt calls on the flushed file.
RECURSIVE FrameAt(_, _)
FrameAt(frames, pos) ==
  IF frames = <<>> THEN [err |-> "EOF", rec |-> NoRecord]
  ELSE IF pos = 0 THEN [err |-> "ok", rec |-> Head(frames)]
  ELSE IF pos < FrameLen(Head(frames)) THEN [err |-> "garbage", rec |-> NoRecord]
  ELSE FrameAt(Tail(frames), pos - FrameLen(Head(frames)))

\* ------------------------------------------------------------ index
\* ents holds the entries written so far; the rest of the file is zero filled.
EntryAt(ents, slot) == IF slot + 1 <= Len(ents) THEN ents[slot + 1] ELSE <<0, 0>>

IndexRead(ents, size, in) ==
  IF size = 0 THEN [err |-> "EOF", off |-> 0, pos |-> 0]
  ELSE LET out == IF in = -1 THEN (size \div entWidth) - 1 ELSE in
           pos == out * entWidth
       IN IF out < 0 \/ size < pos + entWidth
          THEN [err |-> "EOF", off |-> 0, pos |-> 0]
          ELSE [err |-> "ok", off |-> EntryAt(ents, out)[1],
                pos |-> EntryAt(ents, out)[2]]

\* index.Read(in) for in = hi * 2^32 + lo, an int64 beyond 32 bits (hi > 0,
\* lo of small magnitude): uint32(in) keeps the low 32 bits, which is lo
\* when lo >= 0 and 2^32 + lo, an entry far beyond any index, when lo < 0.
IndexReadWide(ents, size, hi, lo) ==
  IF hi = 0 THEN IndexRead(ents, size, lo)
  ELSE IF lo < 0 THEN [err |-> "EOF", off |-> 0, pos |-> 0]
  ELSE IndexRead(ents, size, lo)

\* Mutant of IndexWrite: a refused write still advances size.
IndexWriteCountsRefusal(ents, size, mlen, off, pos) ==
  IF mlen < size + entWidth
  THEN [err |-> "EOF", ents |-> ents, size |-> size + entWidth]
  ELSE LET slot == size \div entWidth
           n == IF Len(ents) > slot + 1 THEN Len(ents) ELSE slot + 1
       IN [err |-> "ok",
           ents |-> [i \in 1..n |-> IF i = slot + 1 THEN <<off, pos>>
                                    ELSE EntryAt(ents, i - 1)],
           size |-> size + entWidth]

\* Mutant of IndexWrite: the length of the map is not tested.
IndexWriteUnbounded(ents, size, mlen, off, pos) ==
  LET slot == size \div entWidth
      n == IF Len(ents) > slot + 1 THEN Len(ents) ELSE slot + 1
  IN [err |-> "ok",
      ents |-> [i \in 1..n |-> IF i = slot + 1 THEN <<off, pos>>
                               ELSE EntryAt(ents, i - 1)],
      size |-> size + entWidth]

IndexWrite(ents, size, mlen, off, pos) ==
  IF mlen < size + entWidth
  THEN [err |-> "EOF", ents |-> ents, size |-> size]
  ELSE LET slot == size \div entWidth
           n == IF Len(ents) > slot + 1 THEN Len(ents) ELSE slot + 1
       IN [err |-> "ok",
           ents |-> [i \in 1..n |-> IF i = slot + 1 THEN <<off, pos>>
                                    ELSE EntryAt(ents, i - 1)],
           size |-> size + entWidth]

\* ------------------------------------------------------------ files
EmptyInode == [store |-> <<>>, ilen |-> 0, ients |-> <<>>]

\* os.OpenFile(..., O_CREATE, ...) of <base>.store and <base>.index.
OpenFiles(d, base) ==
  IF base \in DOMAIN d THEN d ELSE Upd(d, base, EmptyInode)

\* os.Truncate(name, n): cut or zero-extend the index file to n bytes.
TruncateIndexFile(ino, n) ==
  [ino EXCEPT !.ilen = n,
              !.ients = SubSeq(ino.ients, 1, Min({Len(ino.ients), n \div entWidth}))]

\* ------------------------------------------------------------ segment
\* Mutant of NewSegmentObj: the nextOffset of an empty segment is 0, not its
\* base offset.
NewSegmentObjNextZero(ino, base, c) ==
  LET lastEnt == IndexRead(ino.ients, ino.ilen, -1)
  IN [baseOffset |-> base,
      nextOffset |-> IF lastEnt.err # "ok" THEN 0 ELSE base + lastEnt.off + 1,
      ssize |-> Bytes(ino.store),
      sbuf |-> <<>>,
      isize |-> ino.ilen,
      mlen |-> c.MaxIndexBytes,
      berr |-> FALSE,
      closed |-> FALSE]

\* newStore + newIndex + the nextOffset inference of newSegment.
NewSegmentObj(ino, base, c) ==
  LET lastEnt == IndexRead(ino.ients, ino.ilen, -1)
  IN [baseOffset |-> base,
      nextOffset |-> IF lastEnt.err # "ok" THEN base ELSE base + lastEnt.off + 1,
      ssize |-> Bytes(ino.store),
      sbuf |-> <<>>,
      isize |-> ino.ilen,
      mlen |-> c.MaxIndexBytes,
      berr |-> FALSE,
      closed |-> FALSE]

\* Mutant of IsMaxed: a segment exactly at its cap is not maxed.
IsMaxedStrict(o, c) == o.ssize > c.MaxStoreBytes \/ o.isize > c.MaxIndexBytes

IsMaxed(o, c) == o.ssize >= c.MaxStoreBytes \/ o.isize >= c.MaxIndexBytes

\* Mutant of StoreAppend: the size is not advanced.
StoreAppendStaleSize(o, rec) == [o EXCEPT !.sbuf = Append(o.sbuf, rec)]

\* store.Append: the frame goes to the buffered writer, size advances.  A
\* buffered writer that has met a write error (berr) takes nothing more.
StoreAppend(o, rec) ==
  IF o.berr THEN o
  ELSE [o EXCEPT !.sbuf = Append(o.sbuf, rec), !.ssize = o.ssize + FrameLen(rec)]

\* What buf.Flush() returns: the error the writer met earlier, or the error
\* of writing the buffered frames to the file.
FlushErr(w, b) ==
  IF w.objs[b].berr THEN "EIO"
  ELSE IF w.objs[b].sbuf # <<>> /\ w.fault = "write" THEN "EIO"
  ELSE "ok"

\* buf.Flush(): the buffered frames reach the file, or the writer keeps the
\* error.
Flush(w, b) ==
  IF FlushErr(w, b) # "ok" THEN [w EXCEPT !.objs[b].berr = TRUE]
  ELSE [w EXCEPT !.disk[b].store = w.disk[b].store \o w.objs[b].sbuf,
                 !.objs[b].sbuf = <<>>]

\* segment.Close: index.Close (sync, trim the file to size, close) then
\* store.Close (flush, close); it returns FlushErr(w, b).
SegClose(w, b) ==
  LET f == Flush(w, b)
  IN [f EXCEPT !.disk[b] = TruncateIndexFile(f.disk[b], w.objs[b].isize),
               !.objs[b].closed = TRUE]

\* segment.Remove: Close, then delete both files.
SegRemove(w, b) ==
  LET c == SegClose(w, b)
  IN IF FlushErr(w, b) # "ok" THEN c ELSE [c EXCEPT !.disk = Drop(c.disk, {b})]

\* The mapped index entries of segment b.  The files of a closed segment may
\* have been deleted; a read through such a segment fails at the store.
Mapped(w, b) == IF b \in DOMAIN w.disk THEN w.disk[b].ients ELSE <<>>
StoreFile(w, b) == IF b \in DOMAIN w.disk THEN w.disk[b].store ELSE <<>>

\* segment.Append(record) on segment object b, first half: cur is read,
\* the record gets its offset and is appended to the store.
SegAppendStore(w, b, value) ==
  LET o == w.objs[b]
      cur == o.nextOffset
      rec == [value |-> value, offset |-> cur]
  IN [w |-> [w EXCEPT !.objs[b] = StoreAppend(o, rec)], cur |-> cur, pos |-> o.ssize,
      err |-> IF o.berr THEN "EIO" ELSE "ok"]

\* Mutant of SegAppendIndex: nextOffset is not advanced.
SegAppendIndexNoAdvance(w, b, cur, pos) ==
  LET o == w.objs[b]
      iw == IndexWrite(Mapped(w, b), o.isize, o.mlen, o.nextOffset - o.baseOffset, pos)
  IN IF iw.err # "ok"
     THEN [w |-> w, off |-> 0, err |-> iw.err]
     ELSE [w |-> [w EXCEPT !.objs[b].isize = iw.size, !.disk[b].ients = iw.ents],
           off |-> cur, err |-> "ok"]

\* segment.Append, second half: the index entry for nextOffset is written,
\* nextOffset advances and cur is returned.
SegAppendIndex(w, b, cur, pos) ==
  LET o == w.objs[b]
      iw == IndexWrite(Mapped(w, b), o.isize, o.mlen, o.nextOffset - o.baseOffset, pos)
  IN IF iw.err # "ok"
     THEN [w |-> w, off |-> 0, err |-> iw.err]
     ELSE [w |-> [w EXCEPT !.objs[b].isize = iw.size,
                           !.objs[b].nextOffset = o.nextOffset + 1,
                           !.disk[b].ients = iw.ents],
           off |-> cur, err |-> "ok"]

\* Mutant of SegAppend: nextOffset advances although the index write failed.
SegAppendCountsFailure(w, b, value) ==
  LET st == SegAppendStore(w, b, value)
      ix == SegAppendIndex(st.w, b, st.cur, st.pos)
  IN IF st.err # "ok" THEN [w |-> st.w, off |-> 0, err |-> st.err]
     ELSE IF ix.err # "ok"
     THEN [w |-> [ix.w EXCEPT !.objs[b].nextOffset = st.cur + 1], off |-> 0, err |-> ix.err]
     ELSE ix

SegAppend(w, b, value) ==
  LET st == SegAppendStore(w, b, value)
  IN IF st.err # "ok" THEN [w |-> st.w, off |-> 0, err |-> st.err]
     ELSE SegAppendIndex(st.w, b, st.cur, st.pos)

\* segment.Read(off) on segment object b; store.Read flushes first, so the
\* record is looked up in the file followed by the buffered frames.
SegRead(w, b, off) ==
  LET o == w.objs[b]
      ir == IndexRead(Mapped(w, b), o.isize, off - o.baseOffset)
      fr == FrameAt(StoreFile(w, b) \o o.sbuf, ir.pos)
  IN IF ir.err # "ok" THEN [err |-> ir.err, off |-> off, rec |-> NoRecord]
     ELSE IF FlushErr(w, b) # "ok"
     THEN [err |-> FlushErr(w, b), off |-> off, rec |-> NoRecord]
     ELSE IF o.closed THEN [err |-> "closed", off |-> off, rec |-> NoRecord]
     ELSE [err |-> fr.err, off |-> off, rec |-> fr.rec]

\* segment.Read(off) for off = hi * 2^32 + lo: the relative offset
\* int64(off - baseOffset) goes through index.Read's uint32 conversion.
SegReadWide(w, b, hi, lo) ==
  LET o == w.objs[b]
      ir == IndexReadWide(Mapped(w, b), o.isize, hi, lo - o.baseOffset)
      fr == FrameAt(StoreFile(w, b) \o o.sbuf, ir.pos)
  IN IF ir.err # "ok" THEN [err |-> ir.err, off |-> lo, rec |-> NoRecord]
     ELSE IF FlushErr(w, b) # "ok"
     THEN [err |-> FlushErr(w, b), off |-> lo, rec |-> NoRecord]
     ELSE IF o.closed THEN [err |-> "closed", off |-> lo, rec |-> NoRecord]
     ELSE [err |-> fr.err, off |-> lo, rec |-> fr.rec]

\* segment.Read(off): what it leaves behind (store.Read flushes the buffer).
SegReadEffect(w, b, off) ==
  LET o == w.objs[b]
      ir == IndexRead(Mapped(w, b), o.isize, off - o.baseOffset)
  IN IF ir.err # "ok" \/ o.closed THEN w ELSE Flush(w, b)

\* newSegment(dir, base, c): open or create the two files, build the store
\* and the index, infer nextOffset.
SegNew(w, base, c) ==
  IF ~w.dirExists THEN [w |-> w, err |-> "ENOENT"]
  ELSE IF w.fault = "create" /\ base \notin DOMAIN w.disk
  THEN [w |-> w, err |-> "ENOSPC"]
  ELSE LET d1 == OpenFiles(w.disk, base)
       IN [w |-> [w EXCEPT
                    !.disk = [d1 EXCEPT ![base] = TruncateIndexFile(d1[base], c.MaxIndexBytes)],
                    !.objs = Upd(w.objs, base, NewSegmentObj(d1[base], base, c))],
           err |-> "ok"]

\* ------------------------------------------------------------ log
\* The Log object and its directory: w = [dirExists, disk, objs, segments,
\* activeSegment, fault].

\* Mutant of LogNewSegment: the new segment is put in front of the list.
LogNewSegmentInFront(w, off, c) ==
  IF ~w.dirExists THEN [w |-> w, err |-> "ENOENT"]
  ELSE IF w.fault = "create" /\ off \notin DOMAIN w.disk
  THEN [w |-> w, err |-> "ENOSPC"]
  ELSE LET d1 == OpenFiles(w.disk, off)
           o == NewSegmentObj(d1[off], off, c)
       IN [w |-> [w EXCEPT
                    !.disk = [d1 EXCEPT ![off] = TruncateIndexFile(d1[off], c.MaxIndexBytes)],
                    !.objs = Upd(w.objs, off, o),
                    !.segments = <<off>> \o w.segments,
                    !.activeSegment = off],
           err |-> "ok"]

\* Log.newSegment(off): construct the segment, append it to segments and make
\* it active.
LogNewSegment(w, off, c) ==
  IF ~w.dirExists THEN [w |-> w, err |-> "ENOENT"]
  ELSE IF w.fault = "create" /\ off \notin DOMAIN w.disk
  THEN [w |-> w, err |-> "ENOSPC"]
  ELSE LET d1 == OpenFiles(w.disk, off)
           o == NewSegmentObj(d1[off], off, c)
       IN [w |-> [w EXCEPT
                    !.disk = [d1 EXCEPT ![off] = TruncateIndexFile(d1[off], c.MaxIndexBytes)],
                    !.objs = Upd(w.objs, off, o),
                    !.segments = Append(w.segments, off),
                    !.activeSegment = off],
           err |-> "ok"]

\* os.ReadDir + the parse of every file name: each base offset is listed once
\* for its .store and once for its .index file, in ascending order.
BaseOffsets(d) ==
  LET bs == SortedSeq(DOMAIN d)
  IN [i \in 1..(2 * Len(bs)) |-> bs[(i + 1) \div 2]]

\* Mutant of SetupLoop: i is advanced once, so every file gets a segment.
RECURSIVE SetupLoopEveryFile(_, _, _, _)
SetupLoopEveryFile(w, baseOffsets, i, c) ==
  IF i > Len(baseOffsets) THEN w
  ELSE SetupLoopEveryFile(LogNewSegment(w, baseOffsets[i], c).w, baseOffsets, i + 1, c)

\* The loop of setup: a segment for baseOffsets[i], then i is advanced twice.
RECURSIVE SetupLoop(_, _, _, _)
SetupLoop(w, baseOffsets, i, c) ==
  IF i > Len(baseOffsets) THEN w
  ELSE SetupLoop(LogNewSegment(w, baseOffsets[i], c).w, baseOffsets, i + 2, c)

LogSetup(w, c) ==
  IF ~w.dirExists THEN [w |-> w, err |-> "ENOENT"]
  ELSE LET w1 == SetupLoop(w, BaseOffsets(w.disk), 1, c)
       IN IF w1.segments = <<>>
          THEN [w |-> LogNewSegment(w1, c.InitialOffset, c).w, err |-> "ok"]
          ELSE [w |-> w1, err |-> "ok"]

\* NewLog: the defaults, a Log with no segment, setup.
Defaulted(c) ==
  [c EXCEPT !.MaxStoreBytes = IF c.MaxStoreBytes = 0 THEN DefaultMaxBytes ELSE @,
            !.MaxIndexBytes = IF c.MaxIndexBytes = 0 THEN DefaultMaxBytes ELSE @]

NewLog(exists, d, f, c) ==
  LogSetup([dirExists |-> exists, disk |-> d, objs |-> <<>>,
            segments |-> <<>>, activeSegment |-> None, fault |-> f],
           Defaulted(c))

\* Mutant of LogAppendRoll: the new segment starts at off, not off + 1.
LogAppendRollSameOffset(w, off, err, c) ==
  IF err # "ok" THEN [w |-> w, off |-> 0, err |-> err]
  ELSE IF IsMaxed(w.objs[w.activeSegment], c)
       THEN LET n == LogNewSegment(w, off, c)
            IN [w |-> n.w, off |-> off, err |-> n.err]
       ELSE [w |-> w, off |-> off, err |-> "ok"]

\* Mutant of LogAppendRoll: a failed rollover drops the record's offset.
LogAppendRollDropsOffset(w, off, err, c) ==
  IF err # "ok" THEN [w |-> w, off |-> 0, err |-> err]
  ELSE IF IsMaxed(w.objs[w.activeSegment], c)
       THEN LET n == LogNewSegment(w, off + 1, c)
            IN [w |-> n.w, off |-> IF n.err = "ok" THEN off ELSE 0, err |-> n.err]
       ELSE [w |-> w, off |-> off, err |-> "ok"]

\* Log.Append(record), after activeSegment.Append returned (off, err): the
\* rollover when the active segment is maxed.
LogAppendRoll(w, off, err, c) ==
  IF err # "ok" THEN [w |-> w, off |-> 0, err |-> err]
  ELSE IF IsMaxed(w.objs[w.activeSegment], c)
       THEN LET n == LogNewSegment(w, off + 1, c)
            IN [w |-> n.w, off |-> off, err |-> n.err]
       ELSE [w |-> w, off |-> off, err |-> "ok"]

\* Log.Append(record).
LogAppend(w, value, c) ==
  LET a == SegAppend(w, w.activeSegment, value)
  IN LogAppendRoll(a.w, a.off, a.err, c)

\* The segment Log.Read(off) picks: the first one whose range holds off.
FindSegment(w, off) ==
  LET hits == {i \in 1..Len(w.segments) :
                 /\ w.objs[w.segments[i]].baseOffset <= off
                 /\ off < w.objs[w.segments[i]].nextOffset}
  IN IF hits = {} THEN None ELSE w.segments[Min(hits)]

\* Mutant of LogRead: the segment is picked by its base offset alone.
LogReadNoUpperBound(w, off) ==
  LET hits == {i \in 1..Len(w.segments) : w.objs[w.segments[i]].baseOffset <= off}
  IN IF hits = {}
     THEN [err |-> "OffsetOutOfRange", off |-> off, rec |-> NoRecord]
     ELSE SegRead(w, w.segments[Min(hits)], off)

\* Log.Read(off): what it returns.
LogRead(w, off) ==
  LET s == FindSegment(w, off)
  IN IF s = None \/ w.objs[s].nextOffset <= off
     THEN [err |-> "OffsetOutOfRange", off |-> off, rec |-> NoRecord]
     ELSE SegRead(w, s, off)

\* Log.Read(off): what it leaves behind (store.Read flushes the buffer).
LogReadEffect(w, off) ==
  LET s == FindSegment(w, off)
      ir == IF s = None THEN [err |-> "EOF"]
            ELSE IndexRead(Mapped(w, s), w.objs[s].isize, off - w.objs[s].baseOffset)
  IN IF s = None \/ ir.err # "ok" \/ w.objs[s].closed THEN w ELSE Flush(w, s)

\* ------------------------------------------------------------ reader
\* The bytes of a store file.  proto.Marshal writes field 1 (value, bytes)
\* as tag 10, length, content and field 2 (offset, varint) as tag 16, value;
\* store.Append puts the big-endian 8-byte length in front.
Marshal(rec) ==
  (IF Len(rec.value) = 0 THEN <<>> ELSE <<10, Len(rec.value)>> \o rec.value)
  \o (IF rec.offset = 0 THEN <<>> ELSE <<16, rec.offset>>)
Encode(rec) == <<0, 0, 0, 0, 0, 0, 0, Len(Marshal(rec))>> \o Marshal(rec)

RECURSIVE StoreBytes(_)
StoreBytes(frames) ==
  IF frames = <<>> THEN <<>> ELSE Encode(Head(frames)) \o StoreBytes(Tail(frames))

\* File.ReadAt(p, off) with len(p) = n: the bytes from off, and io.EOF when
\* fewer than n are left.
FileReadAt(bytes, off, n) ==
  LET k == IF Len(bytes) - off < n THEN Len(bytes) - off ELSE n
  IN [data |-> SubSeq(bytes, off + 1, off + k),
      err |-> IF k < n THEN "EOF" ELSE "ok"]

\* Read calls with a buffer of n bytes on the io.MultiReader of Log.Reader()
\* until it returns an error: originReader.Read flushes the store, reads at
\* its offset and advances; the MultiReader moves on at io.EOF.
RECURSIVE ReadToEnd(_, _, _, _)
ReadToEnd(w, readers, n, acc) ==
  IF readers = <<>> THEN [w |-> w, data |-> acc, err |-> "EOF"]
  ELSE LET r == Head(readers)
       IN IF FlushErr(w, r.store) # "ok"
          THEN [w |-> Flush(w, r.store), data |-> acc, err |-> FlushErr(w, r.store)]
          ELSE IF w.objs[r.store].closed
          THEN [w |-> w, data |-> acc, err |-> "closed"]
          ELSE LET w1 == Flush(w, r.store)
                   rd == FileReadAt(StoreBytes(w1.disk[r.store].store), r.off, n)
               IN ReadToEnd(w1,
                            IF rd.err = "EOF" THEN Tail(readers)
                            ELSE <<[r EXCEPT !.off = r.off + Len(rd.data)]>>
                                 \o Tail(readers),
                            n, acc \o rd.data)

\* Log.Reader(), then the stream read to its end.
LogReader(w, n) ==
  ReadToEnd(w, [i \in 1..Len(w.segments) |-> [store |-> w.segments[i], off |-> 0]],
            n, <<>>)

LowestOffset(w) == w.objs[w.segments[1]].baseOffset

HighestOffset(w) ==
  LET off == w.objs[w.segments[Len(w.segments)]].nextOffset
  IN IF off = 0 THEN 0 ELSE off - 1

\* Log.Truncate(lowest).
RECURSIVE RemoveSegments(_, _)
RemoveSegments(w, bs) ==
  IF bs = <<>> THEN w
  ELSE IF FlushErr(w, Head(bs)) # "ok" THEN SegRemove(w, Head(bs))
  ELSE RemoveSegments(SegRemove(w, Head(bs)), Tail(bs))

\* Mutant of TruncateRemoves: a segment that ends one offset later goes too.
TruncateRemovesOneMore(o, lowest) == o.nextOffset <= lowest + 2

TruncateRemoves(o, lowest) == o.nextOffset <= lowest + 1

\* Mutant of LogTruncate: the files go, l.segments is left as it was.
LogTruncateKeepsList(w, lowest) ==
  RemoveSegments(w, SelectSeq(w.segments, LAMBDA b : TruncateRemoves(w.objs[b], lowest)))

\* What Log.Truncate(lowest) returns: the error of the first Remove that
\* fails.
TruncateErr(w, lowest) ==
  IF \E i \in 1..Len(w.segments) :
       /\ TruncateRemoves(w.objs[w.segments[i]], lowest)
       /\ FlushErr(w, w.segments[i]) # "ok"
  THEN "EIO" ELSE "ok"

LogTruncate(w, lowest) ==
  LET gone == SelectSeq(w.segments, LAMBDA b : TruncateRemoves(w.objs[b], lowest))
      kept == SelectSeq(w.segments, LAMBDA b : ~TruncateRemoves(w.objs[b], lowest))
      w1 == RemoveSegments(w, gone)
      live == {kept[i] : i \in 1..Len(kept)} \cup {w.activeSegment}
  IN IF TruncateErr(w, lowest) # "ok" THEN w1
     ELSE [w1 EXCEPT !.segments = kept,
                     !.objs = Drop(w1.objs, (DOMAIN w1.objs) \ live)]

\* Log.Close().
RECURSIVE CloseSegments(_, _)
CloseSegments(w, bs) ==
  IF bs = <<>> THEN [w |-> w, err |-> "ok"]
  ELSE IF w.objs[Head(bs)].closed THEN [w |-> w, err |-> "closed"]
  ELSE IF FlushErr(w, Head(bs)) # "ok"
  THEN [w |-> SegClose(w, Head(bs)), err |-> FlushErr(w, Head(bs))]
  ELSE CloseSegments(SegClose(w, Head(bs)), Tail(bs))

LogClose(w) == CloseSegments(w, w.segments)

\* Log.Remove(): Close, then os.RemoveAll(l.Dir).
LogRemove(w) ==
  LET c == LogClose(w)
  IN IF c.err # "ok" THEN c
     ELSE [w |-> [c.w EXCEPT !.disk = <<>>, !.dirExists = FALSE], err |-> "ok"]

\* Log.Reset(): Remove, then setup.
LogReset(w, c) ==
  LET r == LogRemove(w)
  IN IF r.err # "ok" THEN r ELSE LogSetup(r.w, c)


\* ------------------------------------------------------------ state machine
W == [dirExists |-> dirExists, disk |-> disk, objs |-> objs,
      segments |-> segments, activeSegment |-> activeSegment, fault |-> fault]

Install(w) ==
  /\ dirExists' = w.dirExists
  /\ disk' = w.disk
  /\ objs' = w.objs
  /\ segments' = w.segments
  /\ activeSegment' = w.activeSegment
  /\ fault' = w.fault

Result(op, arg, off, err, rec) ==
  [op |-> op, arg |-> arg, off |-> off, err |-> err, rec |-> rec]

\* The active segment's files are open.
ActiveOpen == activeSegment # None /\ ~objs[activeSegment].closed
\* Every file of the Log object has been closed.
AllClosed == \A b \in DOMAIN objs : objs[b].closed

ReadOffsets == 0..(MaxAppends + 2)
\* Lengths of the buffer handed to the Read of Log.Reader().
BufLens == {5, 64}
Lowests == 0..MaxLowest

\* The offsets held by the segments that Truncate(lowest) removes.
RemovedOffsets(w, lowest) ==
  {o \in DOMAIN written :
     \E i \in 1..Len(w.segments) :
       /\ TruncateRemoves(w.objs[w.segments[i]], lowest)
       /\ w.objs[w.segments[i]].baseOffset <= o
       /\ o < w.objs[w.segments[i]].nextOffset}

Callers == 1..NumCallers
NoLocals == [value |-> <<>>, seg |-> None, cur |-> 0, pos |-> 0, off |-> 0, err |-> "ok"]
\* The streaming handlers before any stream is opened.
NoStreams ==
  [ppc |-> "idle", inbox |-> <<>>, closedSend |-> FALSE, received |-> <<>>,
   responses |-> <<>>,
   cpc |-> "idle", reqOffset |-> 0, start |-> 0, sent |-> <<>>,
   cancelled |-> FALSE, cerr |-> "ok"]
\* No index and no store is in use on its own.
NoUnit == [open |-> FALSE]
ConcIdle == UNCHANGED <<mu, pc, tv, order, rpc, idx, sto, records>>

\* The test set-up: a fresh empty directory, then NewLog(dir, c).
Init ==
  \E c \in Configs :
    /\ cfg = Defaulted(c)
    /\ LET n == NewLog(TRUE, <<>>, "none", c)
       IN /\ dirExists = n.w.dirExists
          /\ disk = n.w.disk
          /\ objs = n.w.objs
          /\ segments = n.w.segments
          /\ activeSegment = n.w.activeSegment
    /\ nAppends = 0
    /\ written = <<>>
    /\ lastOff = None
    /\ last = Result("NewLog", None, 0, "ok", NoRecord)
    /\ mu = None
    /\ pc = [t \in Callers |-> "idle"]
    /\ tv = [t \in Callers |-> NoLocals]
    /\ order = <<>>
    /\ fault = "none"
    /\ rpc = NoStreams
    /\ idx = NoUnit
    /\ sto = NoUnit
    /\ records = <<>>

CallAppend(value) ==
  /\ ActiveOpen
  /\ nAppends < MaxAppends
  /\ LET r == LogAppend(W, value, cfg)
     IN /\ Install(r.w)
        /\ last' = Result("Append", value, r.off, r.err, NoRecord)
        /\ written' = IF r.err = "ok" THEN Upd(written, r.off, value) ELSE written
        /\ lastOff' = IF r.err = "ok" THEN r.off ELSE lastOff
  /\ nAppends' = nAppends + 1
  /\ UNCHANGED cfg
  /\ ConcIdle

CallRead(off) ==
  /\ activeSegment # None
  /\ LET r == LogRead(W, off)
     IN /\ Install(LogReadEffect(W, off))
        /\ last' = Result("Read", off, off, r.err, r.rec)
  /\ UNCHANGED <<cfg, nAppends, written, lastOff>>
  /\ ConcIdle

CallReader(n) ==
  /\ activeSegment # None
  /\ LET r == LogReader(W, n)
     IN /\ Install(r.w)
        /\ last' = Result("Reader", n, 0, r.err, r.data)
  /\ UNCHANGED <<cfg, nAppends, written, lastOff>>
  /\ ConcIdle

CallTruncate(lowest) ==
  /\ ActiveOpen
  /\ Install(LogTruncate(W, lowest))
  /\ written' = Drop(written, RemovedOffsets(W, lowest))
  /\ last' = Result("Truncate", lowest, 0, TruncateErr(W, lowest), NoRecord)
  /\ UNCHANGED <<cfg, nAppends, lastOff>>
  /\ ConcIdle

CallClose ==
  /\ activeSegment # None
  /\ LET r == LogClose(W)
     IN /\ Install(r.w)
        /\ last' = Result("Close", None, 0, r.err, NoRecord)
  /\ UNCHANGED <<cfg, nAppends, written, lastOff>>
  /\ ConcIdle

\* NewLog on the directory of a Log whose files have all been closed.
CallReopen ==
  /\ AllClosed
  /\ dirExists
  /\ LET n == NewLog(dirExists, disk, fault, cfg)
     IN /\ Install(n.w)
        /\ last' = Result("NewLog", None, 0, n.err, NoRecord)
  /\ written' = IF disk = <<>> THEN <<>> ELSE written
  /\ lastOff' = IF disk = <<>> THEN None ELSE lastOff
  /\ UNCHANGED <<cfg, nAppends>>
  /\ ConcIdle

CallRemove ==
  /\ activeSegment # None
  /\ LET r == LogRemove(W)
     IN /\ Install(r.w)
        /\ last' = Result("Remove", None, 0, r.err, NoRecord)
        /\ written' = IF r.err = "ok" THEN <<>> ELSE written
  /\ UNCHANGED <<cfg, nAppends, lastOff>>
  /\ ConcIdle

CallReset ==
  /\ activeSegment # None
  /\ LET r == LogReset(W, cfg)
     IN /\ Install(r.w)
        /\ last' = Result("Reset", None, 0, r.err, NoRecord)
        /\ written' = IF ~r.w.dirExists \/ r.err = "ok" THEN <<>> ELSE written
  /\ UNCHANGED <<cfg, nAppends, lastOff>>
  /\ ConcIdle

\* The directory is gone: the test set-up runs again.
SetupTest ==
  /\ ~dirExists
  /\ \E c \in Configs :
       /\ cfg' = Defaulted(c)
       /\ Install(NewLog(TRUE, <<>>, fault, c).w)
  /\ nAppends' = 0
  /\ written' = <<>>
  /\ lastOff' = None
  /\ last' = Result("Setup", None, 0, "ok", NoRecord)
  /\ ConcIdle

Next ==
  \/ \E value \in Values : CallAppend(value)
  \/ \E off \in ReadOffsets : CallRead(off)
  \/ \E n \in BufLens : CallReader(n)
  \/ \E lowest \in Lowests : CallTruncate(lowest)
  \/ CallClose
  \/ CallReopen
  \/ CallRemove
  \/ CallReset
  \/ SetupTest

Spec == Init /\ [][Next]_vars

\* ------------------------------------------------------------ file creation faults
\* The file system starts or stops refusing to create files (no free inode,
\* quota, descriptor limit): os.OpenFile of a file that does not exist
\* returns an error, every other call works as before.
FaultCreate ==
  /\ fault \in {"none", "create"}
  /\ fault' = IF fault = "none" THEN "create" ELSE "none"
  /\ UNCHANGED <<cfg, dirExists, disk, objs, segments, activeSegment,
                 nAppends, written, lastOff, last>>
  /\ ConcIdle

NextFaults ==
  \/ \E value \in Values : CallAppend(value)
  \/ \E off \in ReadOffsets : CallRead(off)
  \/ \E lowest \in Lowests : CallTruncate(lowest)
  \/ CallClose
  \/ CallReopen
  \/ FaultCreate

SpecFaults == Init /\ [][NextFaults]_vars

\* ------------------------------------------------------------ one segment
\* A segment used without a Log, as TestSegment does: newSegment(dir, base,
\* c) in an empty directory, then Append, Read, a second newSegment on the
\* same files, Remove.  cfg.InitialOffset carries the base offset handed to
\* newSegment; there is no Log, so segments stays empty.
SegBases == {0, 16}
SegConfigs ==
  {Config(DefaultMaxBytes, entWidth * n, base) : n \in 1..MaxEntries, base \in SegBases}
TheSegment == cfg.InitialOffset
SegReadOffsets == {TheSegment + k : k \in 0..(MaxEntries + 1)}

InitSegment ==
  \E c \in SegConfigs :
    /\ cfg = c
    /\ LET n == SegNew([dirExists |-> TRUE, disk |-> <<>>, objs |-> <<>>,
                        segments |-> <<>>, activeSegment |-> None,
                        fault |-> "none"], c.InitialOffset, c)
       IN /\ dirExists = n.w.dirExists
          /\ disk = n.w.disk
          /\ objs = n.w.objs
          /\ segments = n.w.segments
          /\ activeSegment = n.w.activeSegment
          /\ fault = n.w.fault
    /\ nAppends = 0
    /\ written = <<>>
    /\ lastOff = None
    /\ last = Result("newSegment", None, 0, "ok", NoRecord)
    /\ mu = None
    /\ pc = [t \in Callers |-> "idle"]
    /\ tv = [t \in Callers |-> NoLocals]
    /\ order = <<>>
    /\ rpc = NoStreams
    /\ idx = NoUnit
    /\ sto = NoUnit
    /\ records = <<>>

SegCallAppend(value) ==
  /\ ~objs[TheSegment].closed
  /\ nAppends < MaxAppends
  /\ LET r == SegAppend(W, TheSegment, value)
     IN /\ Install(r.w)
        /\ last' = Result("Append", value, r.off, r.err, NoRecord)
        /\ written' = IF r.err = "ok" THEN Upd(written, r.off, value) ELSE written
        /\ lastOff' = IF r.err = "ok" THEN r.off ELSE lastOff
  /\ nAppends' = nAppends + 1
  /\ UNCHANGED cfg
  /\ ConcIdle

SegCallRead(off) ==
  /\ LET r == SegRead(W, TheSegment, off)
     IN /\ Install(SegReadEffect(W, TheSegment, off))
        /\ last' = Result("Read", off, off, r.err, r.rec)
  /\ UNCHANGED <<cfg, nAppends, written, lastOff>>
  /\ ConcIdle

\* s.Close(), then newSegment on the same files with a configuration c
\* whose index cap is not below the entries the index holds.
SegCallReopen(c) ==
  /\ ~objs[TheSegment].closed
  /\ c.InitialOffset = TheSegment
  /\ c.MaxIndexBytes >= objs[TheSegment].isize
  /\ LET n == SegNew(SegClose(W, TheSegment), TheSegment, c)
     IN /\ Install(n.w)
        /\ last' = Result("Reopen", c, 0, FlushErr(W, TheSegment), NoRecord)
  /\ cfg' = c
  /\ UNCHANGED <<nAppends, written, lastOff>>
  /\ ConcIdle

\* newSegment on the files of a full segment that was not closed, as
\* TestSegment does after its fourth Append: the old object is dropped with
\* whatever its store buffer holds.
SegCallReopenNoClose(c) ==
  /\ ~objs[TheSegment].closed
  /\ objs[TheSegment].mlen < objs[TheSegment].isize + entWidth
  /\ c.InitialOffset = TheSegment
  /\ c.MaxIndexBytes >= objs[TheSegment].isize
  /\ LET n == SegNew(W, TheSegment, c)
     IN /\ Install(n.w)
        /\ last' = Result("Reopen", c, 0, n.err, NoRecord)
  /\ cfg' = c
  /\ UNCHANGED <<nAppends, written, lastOff>>
  /\ ConcIdle

\* s.Remove(), then newSegment(dir, base, c) with the same configuration.
SegCallRemoveNew ==
  /\ ~objs[TheSegment].closed
  /\ LET n == SegNew(SegRemove(W, TheSegment), TheSegment, cfg)
     IN /\ Install(n.w)
        /\ last' = Result("RemoveNew", None, 0, FlushErr(W, TheSegment), NoRecord)
  /\ written' = IF FlushErr(W, TheSegment) = "ok" THEN <<>> ELSE written
  /\ lastOff' = None
  /\ UNCHANGED <<cfg, nAppends>>
  /\ ConcIdle

\* Writes to the store file start to fail (an I/O error of the device) and
\* keep failing.
FaultWrite ==
  /\ fault = "none"
  /\ fault' = "write"
  /\ UNCHANGED <<cfg, dirExists, disk, objs, segments, activeSegment,
                 nAppends, written, lastOff, last>>
  /\ ConcIdle

\* newSegment on the files of a segment that was never closed, full or not
\* (the process that used it has ended).
SegCallNewUnclosed(c) ==
  /\ ~objs[TheSegment].closed
  /\ c.InitialOffset = TheSegment
  /\ c.MaxIndexBytes >= objs[TheSegment].isize
  /\ LET n == SegNew(W, TheSegment, c)
     IN /\ Install(n.w)
        /\ last' = Result("Reopen", c, 0, n.err, NoRecord)
  /\ cfg' = c
  /\ written' = [o \in {x \in DOMAIN written :
                          FrameAt(StoreFile(W, TheSegment),
                                  IndexRead(Mapped(W, TheSegment),
                                            objs[TheSegment].isize,
                                            x - TheSegment).pos).err = "ok"}
                   |-> written[o]]
  /\ UNCHANGED <<nAppends, lastOff>>
  /\ ConcIdle

NextSegment ==
  \/ \E value \in Values : SegCallAppend(value)
  \/ \E off \in SegReadOffsets : SegCallRead(off)
  \/ \E c \in SegConfigs : SegCallReopen(c)
  \/ \E c \in SegConfigs : SegCallReopenNoClose(c)
  \/ SegCallRemoveNew
  \/ FaultWrite

SpecSegment == InitSegment /\ [][NextSegment]_vars

NextSegmentUnclosed ==
  \/ \E value \in Values : SegCallAppend(value)
  \/ \E off \in SegReadOffsets : SegCallRead(off)
  \/ \E c \in SegConfigs : SegCallReopen(c)
  \/ \E c \in SegConfigs : SegCallNewUnclosed(c)

SpecSegmentUnclosed == InitSegment /\ [][NextSegmentUnclosed]_vars

\* ------------------------------------------------------------ one index
\* An index used on its own, as TestIndex does: newIndex on an empty file,
\* Write, Read, Close, newIndex on the same file.  idx.file is the file,
\* idx.size and idx.mlen are index.size and len(index.mmap); idx.wrote lists
\* the entries written with success and idx.opens counts the newIndex calls
\* on the file.  Write is called with the relative offset of a segment's
\* next record: the number of entries written so far.
IndexCaps == {24, 30}
Positions == {0, 10}
IndexIns == (-2)..3
IndexHis == {0, 1}

\* The variables of the Log, unused while an index or a store is used on
\* its own.
NoLog ==
  /\ cfg = Config(DefaultMaxBytes, DefaultMaxBytes, 0)
  /\ dirExists = TRUE
  /\ disk = <<>>
  /\ objs = <<>>
  /\ segments = <<>>
  /\ activeSegment = None
  /\ written = <<>>
  /\ lastOff = None
  /\ mu = None
  /\ pc = [t \in Callers |-> "idle"]
  /\ tv = [t \in Callers |-> NoLocals]
  /\ order = <<>>
  /\ rpc = NoStreams
  /\ records = <<>>
LogUnused ==
  UNCHANGED <<cfg, dirExists, disk, objs, segments, activeSegment, written,
              lastOff, mu, pc, tv, order, rpc, records>>

\* newIndex(f, c): size is the length of the file as found, then the file
\* is cut or extended to MaxIndexBytes and mapped.
NewIndex(file, maxIndexBytes) ==
  [open |-> TRUE,
   file |-> TruncateIndexFile(file, maxIndexBytes),
   size |-> file.ilen,
   mlen |-> maxIndexBytes]

\* Mutant of IndexClose: the file is not trimmed.
IndexCloseNoTrim(x) == [x EXCEPT !.open = FALSE]

\* index.Close: sync, trim the file to size, close.
IndexClose(x) ==
  [x EXCEPT !.file = TruncateIndexFile(x.file, x.size), !.open = FALSE]

InitIndex ==
  /\ NoLog
  /\ \E c \in IndexCaps :
       idx = NewIndex([ilen |-> 0, ients |-> <<>>], c) @@ [wrote |-> <<>>, opens |-> 1]
  /\ sto = NoUnit
  /\ nAppends = 0
  /\ fault = "none"
  /\ last = Result("newIndex", None, 0, "ok", NoRecord)

IdxCallWrite(pos) ==
  /\ idx.open
  /\ nAppends < MaxAppends
  /\ LET off == Len(idx.wrote)
         iw == IndexWrite(idx.file.ients, idx.size, idx.mlen, off, pos)
     IN /\ idx' = [idx EXCEPT !.file.ients = iw.ents, !.size = iw.size,
                              !.wrote = IF iw.err = "ok"
                                        THEN Append(idx.wrote, <<off, pos>>)
                                        ELSE idx.wrote]
        /\ last' = Result("Write", <<off, pos>>, 0, iw.err, NoRecord)
  /\ nAppends' = nAppends + 1
  /\ UNCHANGED <<sto, fault>>
  /\ LogUnused

\* idx.Read(in) with in = hi * 2^32 + lo.
IdxCallRead(hi, lo) ==
  /\ idx.open
  /\ LET r == IndexReadWide(idx.file.ients, idx.size, hi, lo)
     IN last' = Result("Read", <<hi, lo>>, r.off, r.err, r.pos)
  /\ UNCHANGED <<idx, sto, fault, nAppends>>
  /\ LogUnused

IdxCallClose ==
  /\ idx.open
  /\ idx' = IndexClose(idx)
  /\ last' = Result("Close", None, 0, "ok", NoRecord)
  /\ UNCHANGED <<sto, fault, nAppends>>
  /\ LogUnused

\* os.OpenFile, then newIndex(f, c) on the file of a closed index.
IdxCallOpen(c) ==
  /\ ~idx.open
  /\ idx.opens < MaxOpens
  /\ idx' = NewIndex(idx.file, c) @@ [wrote |-> idx.wrote, opens |-> idx.opens + 1]
  /\ last' = Result("newIndex", c, 0, "ok", NoRecord)
  /\ UNCHANGED <<sto, fault, nAppends>>
  /\ LogUnused

\* newIndex(f, c) on the file of an index that was not closed.
IdxCallNewUnclosed(c) ==
  /\ idx.open
  /\ idx.opens < MaxOpens
  /\ idx' = NewIndex(idx.file, c) @@ [wrote |-> idx.wrote, opens |-> idx.opens + 1]
  /\ last' = Result("newIndex", c, 0, "ok", NoRecord)
  /\ UNCHANGED <<sto, fault, nAppends>>
  /\ LogUnused

NextIndex ==
  \/ \E pos \in Positions : IdxCallWrite(pos)
  \/ \E hi \in IndexHis : \E lo \in IndexIns : IdxCallRead(hi, lo)
  \/ IdxCallClose
  \/ \E c \in IndexCaps : IdxCallOpen(c)

SpecIndex == InitIndex /\ [][NextIndex]_vars

NextIndexUnclosed ==
  \/ NextIndex
  \/ \E c \in IndexCaps : IdxCallNewUnclosed(c)

SpecIndexUnclosed == InitIndex /\ [][NextIndexUnclosed]_vars

\* ------------------------------------------------------------ one store
\* A store used on its own, as TestStoreAppendRead does: newStore on an
\* empty file, Append, Read, ReadAt, a second newStore on the same file.
\* The bytes handed to the bufio.Writer form one stream: sto.frames are the
\* payloads whose frames are whole in it, sto.tail counts the bytes of a
\* frame cut short by a write error after them; the first sto.flen bytes
\* of the stream are in the file, the last sto.n in the writer's buffer.
\* sto.size is store.size, sto.berr the writer's sticky error.
\* sto.appended lists the payload and the position of every Append that
\* returned without error.
BufSize == 4096
\* A payload: len bytes, each of them fill.
Payload(fill, len) == [fill |-> fill, len |-> len]
NoPayload == Payload(0, 0)
Payloads == {Payload(7, 11), Payload(8, 3), Payload(9, 4089)}

RECURSIVE PayloadBytes(_)
PayloadBytes(ps) ==
  IF ps = <<>> THEN 0 ELSE lenWidth + Head(ps).len + PayloadBytes(Tail(ps))

\* bufio.Writer.Write of p bytes on x = [n, err, flen, nn]: while p does
\* not fit, an empty buffer passes it straight to the file and a used
\* buffer is filled and flushed; a failed file write sets err; what is left
\* is copied into the buffer.  nn counts the bytes taken.
RECURSIVE BufWrite(_, _, _)
BufWrite(x, p, failing) ==
  IF p > BufSize - x.n /\ ~x.err
  THEN IF x.n = 0
       THEN IF failing THEN BufWrite([x EXCEPT !.err = TRUE], p, failing)
            ELSE BufWrite([x EXCEPT !.flen = @ + p, !.nn = @ + p], 0, failing)
       ELSE LET c == BufSize - x.n
                full == [x EXCEPT !.n = BufSize, !.nn = @ + c]
            IN BufWrite(IF failing THEN [full EXCEPT !.err = TRUE]
                        ELSE [full EXCEPT !.n = 0, !.flen = @ + BufSize],
                        p - c, failing)
  ELSE IF x.err THEN x
  ELSE [x EXCEPT !.n = @ + p, !.nn = @ + p]

Writer(x) == [n |-> x.n, err |-> x.berr, flen |-> x.flen, nn |-> 0]

\* newStore(f): size is the length of the file, the buffer is empty.
NewStore(flen, frames) ==
  [open |-> TRUE, frames |-> frames, tail |-> 0, flen |-> flen, n |-> 0,
   size |-> flen, berr |-> FALSE]

\* Mutant of StoreUnitAppend: size is not advanced.
StoreUnitAppendStaleSize(x, p, failing) ==
  LET w1 == BufWrite(Writer(x), lenWidth, failing)
      w2 == BufWrite([w1 EXCEPT !.nn = 0], p.len, failing)
  IN IF w1.err
     THEN [x |-> [x EXCEPT !.n = w1.n, !.flen = w1.flen, !.berr = TRUE,
                           !.tail = @ + w1.nn],
           n |-> 0, pos |-> 0, err |-> "EIO"]
     ELSE IF w2.err
     THEN [x |-> [x EXCEPT !.n = w2.n, !.flen = w2.flen, !.berr = TRUE,
                           !.tail = @ + lenWidth + w2.nn],
           n |-> 0, pos |-> 0, err |-> "EIO"]
     ELSE [x |-> [x EXCEPT !.n = w2.n, !.flen = w2.flen,
                           !.frames = Append(@, p)],
           n |-> w2.nn + lenWidth, pos |-> x.size, err |-> "ok"]

\* store.Append(p): position is size; the length prefix, then the payload
\* go to the writer; size advances by the bytes written.  An error of
\* either write is returned before size is touched.
StoreUnitAppend(x, p, failing) ==
  LET w1 == BufWrite(Writer(x), lenWidth, failing)
      w2 == BufWrite([w1 EXCEPT !.nn = 0], p.len, failing)
  IN IF w1.err
     THEN [x |-> [x EXCEPT !.n = w1.n, !.flen = w1.flen, !.berr = TRUE,
                           !.tail = @ + w1.nn],
           n |-> 0, pos |-> 0, err |-> "EIO"]
     ELSE IF w2.err
     THEN [x |-> [x EXCEPT !.n = w2.n, !.flen = w2.flen, !.berr = TRUE,
                           !.tail = @ + lenWidth + w2.nn],
           n |-> 0, pos |-> 0, err |-> "EIO"]
     ELSE [x |-> [x EXCEPT !.n = w2.n, !.flen = w2.flen,
                           !.frames = Append(@, p),
                           !.size = @ + w2.nn + lenWidth],
           n |-> w2.nn + lenWidth, pos |-> x.size, err |-> "ok"]

\* s.buf.Flush().
StoreUnitFlush(x, failing) ==
  IF x.berr THEN [x |-> x, err |-> "EIO"]
  ELSE IF x.n = 0 THEN [x |-> x, err |-> "ok"]
  ELSE IF failing THEN [x |-> [x EXCEPT !.berr = TRUE], err |-> "EIO"]
  ELSE [x |-> [x EXCEPT !.flen = @ + x.n, !.n = 0], err |-> "ok"]

\* The two File.ReadAt calls of store.Read at pos, on a file that holds
\* the first flen bytes of the stream.
RECURSIVE FileFrameAt(_, _, _)
FileFrameAt(frames, flen, pos) ==
  IF flen < pos + lenWidth THEN [err |-> "EOF", p |-> NoPayload]
  ELSE IF frames = <<>> THEN [err |-> "garbage", p |-> NoPayload]
  ELSE IF pos = 0
  THEN IF flen < lenWidth + Head(frames).len THEN [err |-> "EOF", p |-> NoPayload]
       ELSE [err |-> "ok", p |-> Head(frames)]
  ELSE IF pos < lenWidth + Head(frames).len THEN [err |-> "garbage", p |-> NoPayload]
  ELSE FileFrameAt(Tail(frames), flen - (lenWidth + Head(frames).len),
                   pos - (lenWidth + Head(frames).len))

\* Mutant of StoreUnitRead: the buffer is not flushed first.
StoreUnitReadNoFlush(x, pos, failing) ==
  LET r == FileFrameAt(x.frames, x.flen, pos)
  IN [x |-> x, err |-> r.err, p |-> r.p]

\* store.Read(pos): flush, then read the length and the payload.
StoreUnitRead(x, pos, failing) ==
  LET f == StoreUnitFlush(x, failing)
      r == FileFrameAt(f.x.frames, f.x.flen, pos)
  IN IF f.err # "ok" THEN [x |-> f.x, err |-> f.err, p |-> NoPayload]
     ELSE [x |-> f.x, err |-> r.err, p |-> r.p]

\* store.ReadAt(p, off) with len(p) = n: flush, then File.ReadAt, which
\* returns the number of bytes it could read and io.EOF if fewer than n.
StoreUnitReadAt(x, n, off, failing) ==
  LET f == StoreUnitFlush(x, failing)
      left == IF f.x.flen > off THEN f.x.flen - off ELSE 0
  IN IF f.err # "ok" THEN [x |-> f.x, err |-> f.err, n |-> 0]
     ELSE IF left < n THEN [x |-> f.x, err |-> "EOF", n |-> left]
     ELSE [x |-> f.x, err |-> "ok", n |-> n]

Failing == fault = "write"
\* Positions handed to Read and ReadAt: those returned by Append, the end
\* of the data and past it.
StorePositions ==
  {sto.appended[i].pos : i \in 1..Len(sto.appended)} \cup {sto.size, sto.size + 1}

InitStore ==
  /\ NoLog
  /\ idx = NoUnit
  /\ sto = NewStore(0, <<>>) @@ [appended |-> <<>>, opens |-> 1]
  /\ nAppends = 0
  /\ fault = "none"
  /\ last = Result("newStore", None, 0, "ok", NoRecord)

StoCallAppend(p) ==
  /\ sto.open
  /\ nAppends < MaxAppends
  /\ LET r == StoreUnitAppend(sto, p, Failing)
     IN /\ sto' = [r.x EXCEPT !.appended =
                                IF r.err = "ok"
                                THEN Append(@, [p |-> p, pos |-> r.pos])
                                ELSE @]
        /\ last' = Result("Append", p, r.pos, r.err, r.n)
  /\ nAppends' = nAppends + 1
  /\ UNCHANGED <<idx, fault>>
  /\ LogUnused

StoCallRead(pos) ==
  /\ sto.open
  /\ LET r == StoreUnitRead(sto, pos, Failing)
     IN /\ sto' = r.x
        /\ last' = Result("Read", pos, pos, r.err, r.p)
  /\ UNCHANGED <<idx, fault, nAppends>>
  /\ LogUnused

\* s.ReadAt(recordSize, off) with an 8-byte slice, as testReadAt does.
StoCallReadAt(off) ==
  /\ sto.open
  /\ LET r == StoreUnitReadAt(sto, lenWidth, off, Failing)
     IN /\ sto' = r.x
        /\ last' = Result("ReadAt", off, off, r.err, r.n)
  /\ UNCHANGED <<idx, fault, nAppends>>
  /\ LogUnused

\* newStore(f) again on the file of a store whose buffer is empty, as
\* TestStoreAppendRead does after its reads.
StoCallNew ==
  /\ sto.open
  /\ sto.n = 0
  /\ sto.opens < MaxOpens
  /\ sto' = NewStore(sto.flen, sto.frames)
              @@ [appended |-> sto.appended, opens |-> sto.opens + 1]
  /\ last' = Result("newStore", None, 0, "ok", NoRecord)
  /\ UNCHANGED <<idx, fault, nAppends>>
  /\ LogUnused

\* File writes start to fail and keep failing.
StoFaultWrite ==
  /\ fault = "none"
  /\ fault' = "write"
  /\ UNCHANGED <<idx, sto, nAppends, last>>
  /\ LogUnused

NextStore ==
  \/ \E p \in Payloads : StoCallAppend(p)
  \/ \E pos \in StorePositions : StoCallRead(pos)
  \/ \E off \in StorePositions : StoCallReadAt(off)
  \/ StoCallNew
  \/ StoFaultWrite

SpecStore == InitStore /\ [][NextStore]_vars

\* ------------------------------------------------------------ process crash
\* The process dies while the log is open and a new process calls NewLog on
\* the same directory.  Nothing of the old process runs: the store buffers
\* are not flushed and the index files keep the length newIndex gave them.
HeldOffsets(w) ==
  {o \in ReadOffsets :
     \E i \in 1..Len(w.segments) :
       /\ w.objs[w.segments[i]].baseOffset <= o
       /\ o < w.objs[w.segments[i]].nextOffset}

CrashRecover ==
  /\ ActiveOpen
  /\ segments # <<>> /\ activeSegment = segments[Len(segments)]
  /\ \A i \in 1..Len(segments) : ~objs[segments[i]].closed
  /\ LET n == NewLog(dirExists, disk, fault, cfg)
     IN /\ Install(n.w)
        /\ last' = Result("Recover", None, 0, n.err, NoRecord)
        /\ written' = [o \in (DOMAIN written) \cap HeldOffsets(n.w) |-> written[o]]
  /\ lastOff' = None
  /\ UNCHANGED <<cfg, nAppends>>
  /\ ConcIdle

NextCrash ==
  \/ Next
  \/ CrashRecover

SpecCrash == Init /\ [][NextCrash]_vars

\* ------------------------------------------------------------ gRPC server
\* The handlers of grpcServer over the Log, one client per stream.  rpc.ppc
\* is the position of the ProduceStream handler ("idle", "recv" at the top
\* of its loop, "panic"), rpc.cpc that of the ConsumeStream handler ("idle",
\* "select", "consume", "returned").  A panic in a handler ends the process.
LogIdle ==
  UNCHANGED <<cfg, dirExists, disk, objs, segments, activeSegment, fault,
              nAppends, written, lastOff, last, mu, pc, tv, order, idx, sto,
              records>>
ServerUp == rpc.ppc # "panic"
StreamStarts == {0, 1}

\* Produce: CommitLog.Append(req.Record), called by other clients while the
\* streams are open.
Produce(value) == ServerUp /\ nAppends < MaxRequests /\ CallAppend(value)

\* The client opens a ProduceStream; the handler reaches stream.Recv().
ProduceStreamOpen ==
  /\ ServerUp /\ rpc.ppc = "idle"
  /\ rpc' = [rpc EXCEPT !.ppc = "recv"]
  /\ LogIdle

ClientSend(value) ==
  /\ rpc.ppc = "recv" /\ ~rpc.closedSend
  /\ Len(rpc.inbox) + Len(rpc.received) < MaxRequests
  /\ rpc' = [rpc EXCEPT !.inbox = Append(rpc.inbox, value)]
  /\ LogIdle

ClientCloseSend ==
  /\ rpc.ppc = "recv" /\ ~rpc.closedSend
  /\ rpc' = [rpc EXCEPT !.closedSend = TRUE]
  /\ LogIdle

\* ProduceStream, one turn of the loop with stream.Recv() returning a
\* request: err is nil, the body of "if err != nil" is skipped.
ProduceStreamRecv ==
  /\ rpc.ppc = "recv" /\ rpc.inbox # <<>>
  /\ rpc' = [rpc EXCEPT !.inbox = Tail(rpc.inbox),
                         !.received = Append(rpc.received, Head(rpc.inbox))]
  /\ LogIdle

\* ProduceStream, one turn of the loop with stream.Recv() returning
\* (nil, io.EOF): s.Produce(ctx, nil) reads req.Record through the nil
\* request.
ProduceStreamRecvError ==
  /\ rpc.ppc = "recv" /\ rpc.inbox = <<>> /\ rpc.closedSend
  /\ rpc' = [rpc EXCEPT !.ppc = "panic"]
  /\ LogIdle

\* The client calls ConsumeStream with the start offset S.
ConsumeStreamOpen(S) ==
  /\ ServerUp /\ rpc.cpc = "idle"
  /\ rpc' = [rpc EXCEPT !.cpc = "select", !.reqOffset = S, !.start = S]
  /\ LogIdle

ClientCancel ==
  /\ rpc.cpc \in {"select", "consume"} /\ ~rpc.cancelled
  /\ rpc' = [rpc EXCEPT !.cancelled = TRUE]
  /\ LogIdle

\* ConsumeStream: the select on stream.Context().Done().
ConsumeStreamSelect ==
  /\ ServerUp /\ rpc.cpc = "select"
  /\ rpc' = [rpc EXCEPT !.cpc = IF rpc.cancelled THEN "returned" ELSE "consume"]
  /\ LogIdle

\* ConsumeStream: the default case.  s.Consume reads req.Offset; "case nil"
\* has no statement, ErrOffsetOutOfRange continues, any other error is
\* returned; the Send and the req.Offset++ after that return are never run.
ConsumeStreamConsume ==
  /\ ServerUp /\ rpc.cpc = "consume" /\ activeSegment # None
  /\ LET r == LogRead(W, rpc.reqOffset)
     IN /\ Install(LogReadEffect(W, rpc.reqOffset))
        /\ rpc' = IF r.err \in {"ok", "OffsetOutOfRange"}
                  THEN [rpc EXCEPT !.cpc = "select"]
                  ELSE [rpc EXCEPT !.cpc = "returned", !.cerr = r.err]
  /\ UNCHANGED <<cfg, nAppends, written, lastOff, last, mu, pc, tv, order,
                 idx, sto, records>>

NextStreams ==
  \/ \E value \in Values : Produce(value)
  \/ ProduceStreamOpen
  \/ \E value \in Values : ClientSend(value)
  \/ ClientCloseSend
  \/ ProduceStreamRecv
  \/ ProduceStreamRecvError
  \/ \E S \in StreamStarts : ConsumeStreamOpen(S)
  \/ ClientCancel
  \/ ConsumeStreamSelect
  \/ ConsumeStreamConsume

\* The handler goroutines keep running.
SpecStreams ==
  /\ Init /\ [][NextStreams]_vars
  /\ WF_vars(ProduceStreamRecv) /\ WF_vars(ProduceStreamRecvError)
  /\ WF_vars(ConsumeStreamSelect) /\ WF_vars(ConsumeStreamConsume)

\* ------------------------------------------------------------ concurrent callers
\* Each caller invokes Log.Append once on the freshly opened log.  The steps
\* of one call: l.mu.Lock(); store.Append; index.Write and nextOffset++; the
\* rollover and the deferred l.mu.Unlock().
SeqIdle == UNCHANGED <<cfg, nAppends, written, lastOff, last, rpc, idx, sto, records>>

\* Mutant of CanLock: Lock() returns at once.
CanLockAlways(holder) == TRUE

\* sync.RWMutex.Lock() returns only while nobody holds the lock.
CanLock(holder) == holder = None

AppendLock(t, value) ==
  /\ pc[t] = "idle"
  /\ CanLock(mu)
  /\ mu' = t
  /\ order' = Append(order, t)
  /\ pc' = [pc EXCEPT ![t] = "locked"]
  /\ tv' = [tv EXCEPT ![t].value = value]
  /\ UNCHANGED <<dirExists, disk, objs, segments, activeSegment, fault>>
  /\ SeqIdle

AppendStore(t) ==
  /\ pc[t] = "locked"
  /\ LET st == SegAppendStore(W, activeSegment, tv[t].value)
     IN /\ Install(st.w)
        /\ tv' = [tv EXCEPT ![t].seg = activeSegment, ![t].cur = st.cur,
                            ![t].pos = st.pos, ![t].err = st.err]
  /\ pc' = [pc EXCEPT ![t] = "stored"]
  /\ UNCHANGED <<mu, order>>
  /\ SeqIdle

AppendIndex(t) ==
  /\ pc[t] = "stored"
  /\ LET ix == IF tv[t].err # "ok" THEN [w |-> W, off |-> 0, err |-> tv[t].err]
               ELSE SegAppendIndex(W, tv[t].seg, tv[t].cur, tv[t].pos)
     IN /\ Install(ix.w)
        /\ tv' = [tv EXCEPT ![t].off = ix.off, ![t].err = ix.err]
  /\ pc' = [pc EXCEPT ![t] = "indexed"]
  /\ UNCHANGED <<mu, order>>
  /\ SeqIdle

AppendReturn(t) ==
  /\ pc[t] = "indexed"
  /\ LET r == LogAppendRoll(W, tv[t].off, tv[t].err, cfg)
     IN /\ Install(r.w)
        /\ tv' = [tv EXCEPT ![t].off = r.off, ![t].err = r.err]
  /\ mu' = IF mu = t THEN None ELSE mu
  /\ pc' = [pc EXCEPT ![t] = "done"]
  /\ UNCHANGED order
  /\ SeqIdle

NextConc ==
  \/ \E t \in Callers : \E value \in Values : AppendLock(t, value)
  \/ \E t \in Callers : AppendStore(t)
  \/ \E t \in Callers : AppendIndex(t)
  \/ \E t \in Callers : AppendReturn(t)

SpecConc == Init /\ [][NextConc]_vars

\* ------------------------------------------------------------ concurrent readers
\* A caller invokes Log.Append or Log.Read once.  The steps of one Read:
\* l.mu.RLock(); the scan of l.segments; s.Read(off) and the deferred
\* l.mu.RUnlock().
ConcReadOffsets == {0, 1}

\* The callers that hold the read lock.
Readers == {t \in Callers : pc[t] \in {"rlocked", "found"}}

\* Mutant of CanRLock: RLock() returns at once.
CanRLockAlways(holder) == TRUE

\* sync.RWMutex.RLock() returns only while no writer holds the lock.
CanRLock(holder) == holder = None

\* l.mu.Lock() of Append on the RWMutex: no writer and no reader holds it.
AppendLockRW(t, value) ==
  /\ Readers = {}
  /\ AppendLock(t, value)

ReadLock(t, off) ==
  /\ pc[t] = "idle"
  /\ CanRLock(mu)
  /\ order' = Append(order, t)
  /\ pc' = [pc EXCEPT ![t] = "rlocked"]
  /\ tv' = [tv EXCEPT ![t].off = off]
  /\ UNCHANGED <<dirExists, disk, objs, segments, activeSegment, fault, mu>>
  /\ SeqIdle

\* The loop over l.segments.
ReadFind(t) ==
  /\ pc[t] = "rlocked"
  /\ pc' = [pc EXCEPT ![t] = "found"]
  /\ tv' = [tv EXCEPT ![t].seg = FindSegment(W, tv[t].off)]
  /\ UNCHANGED <<dirExists, disk, objs, segments, activeSegment, fault, mu, order>>
  /\ SeqIdle

\* The nil check, s.Read(off), and the deferred RUnlock.
ReadReturn(t) ==
  /\ pc[t] = "found"
  /\ LET s == tv[t].seg
         off == tv[t].off
         r == IF s = None \/ objs[s].nextOffset <= off
              THEN [err |-> "OffsetOutOfRange", off |-> off, rec |-> NoRecord]
              ELSE SegRead(W, s, off)
     IN /\ Install(IF s = None \/ objs[s].nextOffset <= off THEN W
                   ELSE SegReadEffect(W, s, off))
        /\ tv' = [tv EXCEPT ![t].value = r.rec.value, ![t].cur = r.rec.offset,
                            ![t].err = r.err]
  /\ pc' = [pc EXCEPT ![t] = "rdone"]
  /\ UNCHANGED <<mu, order>>
  /\ SeqIdle

NextConcRead ==
  \/ \E t \in Callers : \E value \in Values : AppendLockRW(t, value)
  \/ \E t \in Callers : AppendStore(t)
  \/ \E t \in Callers : AppendIndex(t)
  \/ \E t \in Callers : AppendReturn(t)
  \/ \E t \in Callers : \E off \in ConcReadOffsets : ReadLock(t, off)
  \/ \E t \in Callers : ReadFind(t)
  \/ \E t \in Callers : ReadReturn(t)

SpecConcRead == Init /\ [][NextConcRead]_vars

\* ------------------------------------------------------------ concurrent Remove and Reset
\* A caller invokes Log.Append, Log.Read, Log.Remove or Log.Reset once.  The
\* steps of Remove: l.Close(), which takes l.mu, closes every segment and
\* releases l.mu; then os.RemoveAll(l.Dir).  Reset goes on with l.setup().
RemoveOps == {"Remove", "Reset"}

\* The callers between two steps of Remove or Reset.
Removing == {t \in Callers : pc[t] \in {"Remove", "Reset", "removed"}}

\* Log.Append on a log whose active segment is open.
AppendLockOpen(t, value) ==
  /\ ActiveOpen
  /\ AppendLockRW(t, value)

\* l.Close() of Remove: Lock, segment.Close of every segment, Unlock.
RemoveClose(t, op) ==
  /\ pc[t] = "idle"
  /\ CanLock(mu)
  /\ Readers = {}
  /\ LET c == LogClose(W)
     IN /\ Install(c.w)
        /\ tv' = [tv EXCEPT ![t].err = c.err]
        /\ pc' = [pc EXCEPT ![t] = IF c.err # "ok" THEN "xdone" ELSE op]
  /\ order' = Append(order, t)
  /\ UNCHANGED mu
  /\ SeqIdle

\* os.RemoveAll(l.Dir); Remove returns.
RemoveAll(t) ==
  /\ pc[t] \in RemoveOps
  /\ Install([W EXCEPT !.disk = <<>>, !.dirExists = FALSE])
  /\ pc' = [pc EXCEPT ![t] = IF pc[t] = "Reset" THEN "removed" ELSE "xdone"]
  /\ UNCHANGED <<mu, order, tv>>
  /\ SeqIdle

\* l.setup() of Reset.
ResetSetup(t) ==
  /\ pc[t] = "removed"
  /\ LET s == LogSetup(W, cfg)
     IN /\ Install(s.w)
        /\ tv' = [tv EXCEPT ![t].err = s.err]
  /\ pc' = [pc EXCEPT ![t] = "xdone"]
  /\ UNCHANGED <<mu, order>>
  /\ SeqIdle

NextConcReset ==
  \/ \E t \in Callers : \E value \in Values : AppendLockOpen(t, value)
  \/ \E t \in Callers : AppendStore(t)
  \/ \E t \in Callers : AppendIndex(t)
  \/ \E t \in Callers : AppendReturn(t)
  \/ \E t \in Callers : \E off \in ConcReadOffsets : ReadLock(t, off)
  \/ \E t \in Callers : ReadFind(t)
  \/ \E t \in Callers : ReadReturn(t)
  \/ \E t \in Callers : \E op \in RemoveOps : RemoveClose(t, op)
  \/ \E t \in Callers : RemoveAll(t)
  \/ \E t \in Callers : ResetSetup(t)

SpecConcReset == Init /\ [][NextConcReset]_vars


\* ------------------------------------------------------------ properties
Range(q) == {q[i] : i \in 1..Len(q)}
Seg(i) == objs[segments[i]]
Holds(o, off) == o.baseOffset <= off /\ off < o.nextOffset
\* The Log has segments and none of them has been closed.
LogOpen == segments # <<>> /\ \A i \in 1..Len(segments) : ~Seg(i).closed
ActiveIsLast == segments # <<>> /\ activeSegment = segments[Len(segments)]
Appended(step) == step.op = "Append" /\ step.err = "ok"
ReadBack(off) ==
  [err |-> "ok", off |-> off, rec |-> [value |-> written[off], offset |-> off]]
OutOfRange(off) == [err |-> "OffsetOutOfRange", off |-> off, rec |-> NoRecord]

\* C1: while the log is open, Read(O) of every offset O that a successful
\* Append returned and that no Truncate has removed returns the appended
\* value with the offset field O.
C1_AppendThenRead ==
  LogOpen => \A O \in DOMAIN written : LogRead(W, O) = ReadBack(O)

\* A record of an earlier segment has been read back after a rollover.
C1_Witness ==
  /\ last.op = "Read" /\ last.err = "ok"
  /\ Len(segments) >= 2
  /\ last.arg \in DOMAIN written
  /\ last.arg < objs[activeSegment].baseOffset
  /\ last.rec = [value |-> written[last.arg], offset |-> last.arg]

\* C2: every successful Append returns the offset after the one returned by
\* the previous successful Append (across rollover, Close and reopen), which
\* is HighestOffset() + 1; the first Append on an empty directory returns
\* config.initialOffset.
C2_OffsetsAscendByOne ==
  [][Appended(last') =>
       /\ last'.off = IF lastOff = None THEN cfg.InitialOffset ELSE lastOff + 1
       /\ lastOff # None => last'.off = HighestOffset(W) + 1]_vars

\* An Append after a rollover and a reopen returned the next offset.
C2_Witness ==
  /\ Appended(last)
  /\ Len(segments) >= 2
  /\ last.off = objs[activeSegment].baseOffset
  /\ last.off = cfg.InitialOffset + nAppends - 1
  /\ nAppends >= 3

\* C3: NewLog on the directory of a closed log rebuilds the same segments
\* (base offsets and nextOffsets, in order), HighestOffset() is unchanged and
\* every offset the log held reads back the value appended at it.
Shape(w) ==
  [i \in 1..Len(w.segments) |->
     <<w.objs[w.segments[i]].baseOffset, w.objs[w.segments[i]].nextOffset>>]

C3_ReopenRestores ==
  [][(last'.op = "NewLog" /\ segments # <<>>) =>
       /\ Shape(W') = Shape(W)
       /\ HighestOffset(W') = HighestOffset(W)
       /\ \A O \in LowestOffset(W')..(objs'[activeSegment'].nextOffset - 1) :
            O \in DOMAIN written /\ LogRead(W', O) = ReadBack(O)]_vars

\* A log of several segments has been closed and reopened.
C3_Witness ==
  /\ last.op = "NewLog"
  /\ nAppends >= 3
  /\ Len(segments) >= 2
  /\ Seg(1).nextOffset > Seg(1).baseOffset

\* C4: Read(off) with off < LowestOffset() or off > HighestOffset() returns
\* OffsetOutOfRange carrying off and no record, and changes nothing; on a log
\* holding no record every Read returns OffsetOutOfRange.
C4_OutOfRange ==
  segments # <<>> =>
    \A off \in ReadOffsets :
      /\ (off < LowestOffset(W) \/ off > HighestOffset(W)) =>
           LogRead(W, off) = OutOfRange(off) /\ LogReadEffect(W, off) = W
      /\ (\A i \in 1..Len(segments) : Seg(i).nextOffset = Seg(i).baseOffset) =>
           LogRead(W, off) = OutOfRange(off)

\* A Read past the highest offset of a log holding records was refused.
C4_Witness ==
  /\ last.op = "Read" /\ last.err = "OffsetOutOfRange"
  /\ segments # <<>>
  /\ written # <<>>
  /\ last.arg = HighestOffset(W) + 1

\* C5: Truncate(L) removes exactly the segments whose every offset is < L,
\* and every segment it retains holds an offset >= L.
C5_TruncateExact ==
  [][last'.op = "Truncate" =>
       \A i \in 1..Len(segments) :
         /\ segments[i] \notin Range(segments') <=>
              \A x \in Seg(i).baseOffset..(Seg(i).nextOffset - 1) : x < last'.arg
         /\ segments[i] \in Range(segments') =>
              \E x \in Seg(i).baseOffset..(Seg(i).nextOffset - 1) : x >= last'.arg]_vars

\* C6: a Truncate(L) that retains the active segment leaves LowestOffset() at
\* the base offset of the first retained segment, makes every offset of a
\* removed segment out of range, and leaves the Read of every offset of a
\* retained segment as it was.
C6_TruncateFrame ==
  [][(last'.op = "Truncate" /\ activeSegment \in Range(segments')) =>
       LET kept == SelectSeq(segments, LAMBDA b : b \in Range(segments'))
       IN /\ LowestOffset(W') = objs[kept[1]].baseOffset
          /\ \A i \in 1..Len(segments) : \A off \in ReadOffsets :
               Holds(Seg(i), off) =>
                 IF segments[i] \in Range(segments')
                 THEN LogRead(W', off) = LogRead(W, off)
                 ELSE LogRead(W', off) = OutOfRange(off)]_vars

\* A Truncate removed a segment holding records and retained another.
C6_Witness ==
  /\ last.op = "Truncate"
  /\ ActiveIsLast
  /\ Len(segments) >= 2
  /\ LowestOffset(W) > cfg.InitialOffset
  /\ Seg(1).nextOffset > Seg(1).baseOffset

\* C8: in an open log the segments are in ascending base offset order, each
\* one starts where the one before it ends, and every stored offset lies in
\* exactly one segment.
C8_SegmentsContiguous ==
  LogOpen =>
    /\ \A i \in 1..Len(segments) : Seg(i).baseOffset <= Seg(i).nextOffset
    /\ \A i \in 1..(Len(segments) - 1) :
         /\ Seg(i).baseOffset < Seg(i + 1).baseOffset
         /\ Seg(i).nextOffset = Seg(i + 1).baseOffset
    /\ \A O \in DOMAIN written :
         Cardinality({i \in 1..Len(segments) : Holds(Seg(i), O)}) = 1

\* An open log of three segments, the first two holding records.
C8_Witness ==
  /\ LogOpen
  /\ Len(segments) >= 3
  /\ Cardinality(DOMAIN written) >= 4

\* Append touches no segment but the active one.
AppendFrame ==
  Appended(last') =>
    \A b \in Range(segments) \ {activeSegment} :
      /\ b \in Range(segments')
      /\ objs'[b] = objs[b]
      /\ disk'[b] = disk[b]

\* C9 (as claimed): in every reachable state activeSegment is the last
\* element of segments, and Append changes only the active segment.
C9_ActiveAlwaysLast ==
  [][ActiveIsLast /\ ActiveIsLast' /\ AppendFrame]_vars

\* C9 (amended): in every reachable state in which no Truncate has removed
\* the active segment, activeSegment is the last element of segments, and
\* Append changes only the active segment.
ActiveRetained == activeSegment \in Range(segments)
C9_ActiveLastWhileRetained ==
  [][/\ ActiveRetained => ActiveIsLast
     /\ ActiveRetained' => ActiveIsLast'
     /\ AppendFrame]_vars

\* An Append after a Truncate left two earlier segments as they were.
C9_Witness ==
  /\ Appended(last)
  /\ ActiveIsLast
  /\ Len(segments) >= 2
  /\ LowestOffset(W) > cfg.InitialOffset

\* C10: an Append that leaves the segment it wrote to maxed has created an
\* empty segment at the next offset and made it active; so with a store cap
\* of exactly k frames of one size, and the index not limiting, the segments
\* of an untruncated log of N records have base offsets 0, k, 2k, ... with
\* LowestOffset() = 0 and HighestOffset() = N - 1.
AllFrames ==
  UNION {Range(disk[segments[i]].store \o Seg(i).sbuf) : i \in 1..Len(segments)}
EqualFrames(k) ==
  /\ AllFrames # {}
  /\ \A f \in AllFrames : k * FrameLen(f) = cfg.MaxStoreBytes
  /\ (k + 1) * entWidth <= cfg.MaxIndexBytes
Untruncated ==
  /\ LogOpen
  /\ cfg.InitialOffset = 0
  /\ LowestOffset(W) = 0
  /\ DOMAIN written = 0..(objs[activeSegment].nextOffset - 1)
RolledOver(step) ==
  LET n == step.off + 1
  IN /\ activeSegment' = n
     /\ segments' = Append(segments, n)
     /\ objs'[n].baseOffset = n /\ objs'[n].nextOffset = n
     /\ objs'[n].ssize = 0 /\ objs'[n].isize = 0
     /\ disk'[n].store = <<>>
C10_Rollover ==
  [][/\ (Appended(last') /\ IsMaxed(objs'[activeSegment], cfg)) => RolledOver(last')
     /\ \A k \in 1..MaxAppends :
          (Untruncated' /\ EqualFrames(k)') =>
            LET N == Cardinality(DOMAIN written')
            IN /\ Len(segments') = (N \div k) + 1
               /\ \A i \in 1..Len(segments') : segments'[i] = (i - 1) * k
               /\ LowestOffset(W') = 0
               /\ HighestOffset(W') = N - 1]_vars

\* Four equal frames under a cap of two frames: segments 0, 2 and 4.
C10_Witness ==
  /\ Appended(last)
  /\ Untruncated
  /\ EqualFrames(2)
  /\ segments = <<0, 2, 4>>


\* C7: concurrent Log.Append calls are serialized: the i-th caller to take
\* the lock and be given an offset gets the i-th offset, so the returned
\* offsets are distinct and contiguous in lock order, and each one reads
\* back its caller's record.
LockRank(t) == CHOOSE i \in 1..Len(order) : order[i] = t
Done == {t \in Callers : pc[t] = "done"}
Returned == {t \in Done : tv[t].err = "ok"}
ReturnedBefore(t) == {u \in Returned : LockRank(u) < LockRank(t)}
C7_AppendsSerialized ==
  \A t \in Returned :
    /\ tv[t].off = cfg.InitialOffset + Cardinality(ReturnedBefore(t))
    /\ \A u \in Returned \ {t} : tv[u].off # tv[t].off
    /\ LogRead(W, tv[t].off) =
         [err |-> "ok", off |-> tv[t].off,
          rec |-> [value |-> tv[t].value, offset |-> tv[t].off]]

\* All callers have returned, with different values, across a rollover.
C7_Witness ==
  /\ Returned = Callers
  /\ Len(segments) >= 2
  /\ tv[order[1]].value # tv[order[2]].value


\* C12: the EOF of the index and the store is never what Log.Append or
\* Log.Read returns: a Read out of range returns OffsetOutOfRange, and a
\* full active segment has been replaced before Append can meet it.
C12_NoEOFSurfaces ==
  last.op \in {"Append", "Read"} => last.err # "EOF"

\* C18: for every configuration with MaxIndexBytes >= entWidth, after an
\* Append that returned no error the active segment's index has room for
\* one more entry, so no further Append fails with EOF.
C18_IndexRoomAfterAppend ==
  (Appended(last) /\ ActiveOpen /\ cfg.MaxIndexBytes >= entWidth) =>
    /\ objs[activeSegment].isize + entWidth <= cfg.MaxIndexBytes
    /\ \A value \in Values : LogAppend(W, value, cfg).err # "EOF"


\* C11: after a crash with the log open and NewLog on the same directory,
\* no segment's nextOffset is above what it was before the crash, every
\* offset the recovered log holds reads back the record appended at it, and
\* the next Append succeeds with the recovered nextOffset.
C11_CrashRecovery ==
  [][last'.op = "Recover" =>
       /\ \A i \in 1..Len(segments') :
            /\ segments'[i] \in Range(segments)
            /\ objs'[segments'[i]].nextOffset <= objs[segments'[i]].nextOffset
       /\ \A O \in HeldOffsets(W') :
            O \in DOMAIN written /\ LogRead(W', O) = ReadBack(O)
       /\ \A value \in Values :
            /\ LogAppend(W', value, cfg).err = "ok"
            /\ LogAppend(W', value, cfg).off = objs'[activeSegment'].nextOffset]_vars


\* C13: the stream of Log.Reader(), read to its end, is the concatenation of
\* the segments' store contents in base offset order, which is the sequence
\* of the length-prefixed frames of the records from LowestOffset() to
\* HighestOffset() in offset order.
RECURSIVE Flatten(_)
Flatten(seqs) == IF seqs = <<>> THEN <<>> ELSE Head(seqs) \o Flatten(Tail(seqs))
StoreContents ==
  Flatten([i \in 1..Len(segments) |->
             StoreBytes(disk[segments[i]].store \o Seg(i).sbuf)])
RecordFrames ==
  LET lo == LowestOffset(W)
      hi == Seg(Len(segments)).nextOffset - 1
  IN Flatten([k \in 1..(hi - lo + 1) |->
                IF lo + k - 1 \in DOMAIN written
                THEN Encode([value |-> written[lo + k - 1], offset |-> lo + k - 1])
                ELSE <<>>])
C13_ReaderStream ==
  LogOpen =>
    \A n \in BufLens :
      /\ LogReader(W, n).err = "EOF"
      /\ LogReader(W, n).data = StoreContents
      /\ LogReader(W, n).data = RecordFrames


\* C14: ConsumeStream started at S sends the records in ascending offset
\* order from S with no gap and no repeat, and every offset >= S that is (or
\* comes to be) in the log is sent unless the client cancels first.
StreamSent(O) == \E i \in 1..Len(rpc.sent) : rpc.sent[i].offset = O
C14_ConsumeStreamSends ==
  /\ [](\A i \in 1..Len(rpc.sent) : rpc.sent[i].offset = rpc.start + i - 1)
  /\ \A O \in ReadOffsets :
       (rpc.cpc \in {"select", "consume"} /\ O >= rpc.start /\ O \in DOMAIN written)
         ~> (StreamSent(O) \/ rpc.cancelled \/ ~ServerUp)

\* C15: ProduceStream has answered every request it received with one
\* response, in order of arrival, carrying the offset at which the log now
\* holds that request's record, and a failing Recv ends the handler.
C15_ProduceStream ==
  /\ ServerUp
  /\ rpc.ppc = "recv" =>
       /\ Len(rpc.responses) = Len(rpc.received)
       /\ \A i \in 1..Len(rpc.responses) :
            /\ rpc.responses[i] \in DOMAIN written
            /\ written[rpc.responses[i]] = rpc.received[i]
            /\ i > 1 => rpc.responses[i - 1] < rpc.responses[i]


\* C16: when NewLog has returned no error the log has a segment and an
\* active segment, also when the directory was empty and the first segment
\* could not be created.
C16_NewLogHasSegment ==
  (last.op \in {"NewLog", "Setup"} /\ last.err = "ok") =>
    segments # <<>> /\ activeSegment # None

\* C17: an Append whose record was written but whose rollover segment could
\* not be constructed returns the record's offset together with the error,
\* the record reads back at that offset, and segments and activeSegment are
\* what they were.
RolloverFailed(step) == step.op = "Append" /\ step.err \in {"ENOSPC", "ENOENT"}
C17_FailedRollover ==
  [][(nAppends' = nAppends + 1 /\ RolloverFailed(last')) =>
       /\ last'.off = objs[activeSegment].nextOffset
       /\ LogRead(W', last'.off) =
            [err |-> "ok", off |-> last'.off,
             rec |-> [value |-> last'.arg, offset |-> last'.off]]
       /\ segments' = segments
       /\ activeSegment' = activeSegment]_vars

\* An Append on the second segment returned its offset and the error of the
\* rollover, and left the full segment active.
C17_Witness ==
  /\ RolloverFailed(last)
  /\ Len(segments) >= 2
  /\ ActiveIsLast
  /\ IsMaxed(objs[activeSegment], cfg)
  /\ last.off = objs[activeSegment].nextOffset - 1
  /\ last.off > 0


\* C19: a segment with base offset B whose index cap is n entries (store not
\* limiting, no write error) accepts exactly n appends, at offsets B, B+1,
\* ..., B+n-1, each of which reads back its record; the next append fails
\* with EOF and leaves the segment maxed; a segment opened again on the
\* files of a maxed segment under the same configuration is maxed, and a
\* segment created after Remove is not.
C19_SegmentFills ==
  [][fault = "none" =>
       LET b == TheSegment
           n == cfg.MaxIndexBytes \div entWidth
           k == Cardinality(DOMAIN written)
       IN /\ nAppends' = nAppends + 1 =>
               IF k < n
               THEN /\ last'.err = "ok"
                    /\ last'.off = b + k
                    /\ SegRead(W', b, last'.off) =
                         [err |-> "ok", off |-> last'.off,
                          rec |-> [value |-> last'.arg, offset |-> last'.off]]
               ELSE /\ last'.err = "EOF"
                    /\ IsMaxed(objs'[b], cfg)
          /\ (last'.op = "Reopen" /\ cfg' = cfg /\ IsMaxed(objs[b], cfg)) =>
               IsMaxed(objs'[b], cfg')
          /\ (last'.op = "RemoveNew" /\ last'.err = "ok") =>
               /\ ~IsMaxed(objs'[b], cfg')
               /\ objs'[b].nextOffset = b]_vars

\* Base offset 16, a cap of two entries: two appends succeeded, the third
\* failed with EOF and the segment is maxed.
C19_Witness ==
  /\ fault = "none"
  /\ TheSegment = 16
  /\ cfg.MaxIndexBytes = 2 * entWidth
  /\ last.op = "Append" /\ last.err = "EOF"
  /\ DOMAIN written = {16, 17}
  /\ IsMaxed(objs[TheSegment], cfg)

\* C20: a segment.Append that fails leaves nextOffset and the index as they
\* were, no offset from nextOffset on can be read, and an Append that
\* succeeds returns the nextOffset it found, so the offset of a failed
\* append is the offset of the next successful one.
C20_FailedAppend ==
  [][nAppends' = nAppends + 1 =>
       LET b == TheSegment
       IN IF last'.err # "ok"
          THEN /\ objs'[b].nextOffset = objs[b].nextOffset
               /\ objs'[b].isize = objs[b].isize
               /\ Mapped(W', b) = Mapped(W, b)
               /\ \A off \in SegReadOffsets :
                    off >= objs'[b].nextOffset => SegRead(W', b, off).err # "ok"
          ELSE last'.off = objs[b].nextOffset]_vars

\* The store holds the frame of a failed append and, after it, the frame of
\* the successful append that was given the same offset.
C20_Witness ==
  /\ last.op = "Append" /\ last.err = "ok"
  /\ TheSegment \in DOMAIN objs
  /\ LET frames == StoreFile(W, TheSegment) \o objs[TheSegment].sbuf
     IN \E i, j \in 1..Len(frames) :
          /\ i < j
          /\ frames[i].offset = last.off
          /\ frames[j].offset = last.off

\* C21: in every state of a segment, nextOffset - baseOffset is the number
\* of records the segment holds (the offsets appended to it whose frames
\* are in its store), which is index.size / entWidth, and index entry i
\* holds the relative offset i.
C21_SegmentCount ==
  LET b == TheSegment
      o == objs[b]
  IN /\ o.nextOffset - o.baseOffset = Cardinality(DOMAIN written)
     /\ o.nextOffset - o.baseOffset = o.isize \div entWidth
     /\ o.isize = entWidth * (o.isize \div entWidth)
     /\ \A i \in 0..((o.isize \div entWidth) - 1) : EntryAt(Mapped(W, b), i)[1] = i

\* C22: segment.Read(off) returns EOF for every offset outside
\* [baseOffset, nextOffset): the offsets from nextOffset on, baseOffset - 1,
\* and the offsets 2^32 + lo; a read that succeeds returns the record
\* stored under the offset asked for.
C22_ReadOutsideRange ==
  LET b == TheSegment
      o == objs[b]
  IN (~o.closed /\ fault = "none") =>
       /\ \A off \in SegReadOffsets \cup (IF b > 0 THEN {b - 1} ELSE {}) :
            IF off < o.baseOffset \/ off >= o.nextOffset
            THEN SegRead(W, b, off).err = "EOF"
            ELSE SegRead(W, b, off).err = "ok" => SegRead(W, b, off).rec.offset = off
       /\ \A lo \in SegReadOffsets : SegReadWide(W, b, 1, lo).err = "EOF"

\* What idx.Read(in) returns for in = hi * 2^32 + lo.
IdxRead(hi, lo) == IndexReadWide(idx.file.ients, idx.size, hi, lo)
IdxEOF == [err |-> "EOF", off |-> 0, pos |-> 0]
IdxEntry(e) == [err |-> "ok", off |-> e[1], pos |-> e[2]]

\* C23: index.size is a multiple of entWidth in every state: after newIndex
\* on a new file, after newIndex on an existing file, closed or not, under
\* any MaxIndexBytes, and after every Write.
C23_SizeMultiple == idx.size % entWidth = 0

\* C24: after k successful writes (0, p0), ..., (k-1, p(k-1)) to a fresh
\* index, Read(i) returns (i, pi) for 0 <= i < k, Read(-1) returns the last
\* entry when k > 0 and EOF when k = 0, and Read(i) returns EOF for every
\* i >= k, 2^32 + i included.
C24_ReadsAfterWrites ==
  (idx.open /\ idx.opens = 1) =>
    LET k == Len(idx.wrote)
    IN /\ \A i \in 0..(k - 1) :
            /\ idx.wrote[i + 1][1] = i
            /\ IdxRead(0, i) = IdxEntry(idx.wrote[i + 1])
       /\ IdxRead(0, -1) = IF k = 0 THEN IdxEOF ELSE IdxEntry(idx.wrote[k])
       /\ \A i \in IndexIns : i >= k => IdxRead(0, i) = IdxEOF
       /\ \A i \in IndexIns : i >= 0 => IdxRead(1, i) = IdxEOF

\* C25: index.Write on an index without room for a whole entry (size +
\* entWidth > len(mmap)) returns EOF and leaves size and the file as they
\* were; with room it returns nil, advances size by entWidth, stores the
\* entry in the slot at the old size and leaves the slots before it alone.
C25_WriteRoom ==
  [][nAppends' = nAppends + 1 =>
       IF idx.size + entWidth > idx.mlen
       THEN /\ last'.err = "EOF"
            /\ idx'.size = idx.size
            /\ idx'.file = idx.file
       ELSE /\ last'.err = "ok"
            /\ idx'.size = idx.size + entWidth
            /\ EntryAt(idx'.file.ients, idx.size \div entWidth) = last'.arg
            /\ \A i \in 0..((idx.size \div entWidth) - 1) :
                 EntryAt(idx'.file.ients, i) = EntryAt(idx.file.ients, i)]_vars

\* Two writes succeeded and the next one was refused.
C25_Witness ==
  /\ idx.open
  /\ last.op = "Write" /\ last.err = "EOF"
  /\ Len(idx.wrote) = 2
  /\ idx.size = 2 * entWidth

\* C26: Close trims the index file to size bytes; newIndex on the closed
\* file has the size and the entries of the closed index, its Read(-1)
\* returns the last entry written before Close, and a write after it lands
\* in the next slot, every entry written so far still being read back.
C26_CloseReopen ==
  [][/\ (idx.open /\ ~idx'.open) =>
          /\ idx'.file.ilen = idx.size
          /\ idx'.file.ients = idx.wrote
     /\ (~idx.open /\ idx'.open) =>
          /\ idx'.size = idx.size
          /\ idx'.size = Len(idx.wrote) * entWidth
          /\ idx'.file.ients = idx.wrote
          /\ IndexRead(idx'.file.ients, idx'.size, -1) =
               IF idx.wrote = <<>> THEN IdxEOF
               ELSE IdxEntry(idx.wrote[Len(idx.wrote)])
     /\ (nAppends' = nAppends + 1 /\ last'.err = "ok") =>
          /\ idx'.wrote = Append(idx.wrote, last'.arg)
          /\ \A i \in 0..(Len(idx'.wrote) - 1) :
               IndexRead(idx'.file.ients, idx'.size, i) = IdxEntry(idx'.wrote[i + 1])
          /\ IndexRead(idx'.file.ients, idx'.size, -1) = IdxEntry(last'.arg)]_vars

\* An entry was written, the index closed and opened again, and a second
\* entry written after the first.
C26_Witness ==
  /\ idx.open /\ idx.opens = 2
  /\ last.op = "Write" /\ last.err = "ok"
  /\ Len(idx.wrote) = 2
  /\ IndexRead(idx.file.ients, idx.size, -1) = IdxEntry(idx.wrote[2])

AppendedPayloads == [i \in 1..Len(sto.appended) |-> sto.appended[i].p]

\* C27: a store.Append(p) that succeeds returns the size it found as
\* position and lenWidth + len(p) as bytesWritten, and advances size by
\* bytesWritten; the position is the total length of the frames appended
\* before, so each frame starts where the one before it ends and the i-th
\* of equal payloads ends at (lenWidth + len(p)) * i.
C27_AppendPositions ==
  [][(nAppends' = nAppends + 1 /\ last'.err = "ok") =>
       /\ last'.off = sto.size
       /\ last'.rec = lenWidth + last'.arg.len
       /\ sto'.size = sto.size + last'.rec
       /\ last'.off = PayloadBytes(AppendedPayloads)
       /\ (\A i \in 1..Len(sto.appended) : sto.appended[i].p = last'.arg) =>
            last'.off + last'.rec = (lenWidth + last'.arg.len) * (Len(sto.appended) + 1)]_vars

\* The third append of the 11-byte payload ended at 19 * 3.
C27_Witness ==
  /\ last.op = "Append" /\ last.err = "ok"
  /\ Len(sto.appended) = 3
  /\ \A i \in 1..3 : sto.appended[i].p = Payload(7, 11)
  /\ last.off + last.rec = (lenWidth + 11) * 3

\* C28: while file writes work, store.Read(pos) returns p for every pos
\* that an Append(p) returned, whether or not the frame has left the buffer;
\* after that Read a second store opened on the file returns p as well; a
\* Read at or past the end of the data returns EOF.
C28_ReadBack ==
  (sto.open /\ fault = "none") =>
    /\ \A i \in 1..Len(sto.appended) :
         LET r == StoreUnitRead(sto, sto.appended[i].pos, Failing)
             second == NewStore(r.x.flen, r.x.frames)
         IN /\ r.err = "ok"
            /\ r.p = sto.appended[i].p
            /\ \A j \in 1..Len(sto.appended) :
                 StoreUnitRead(second, sto.appended[j].pos, Failing).err = "ok"
                 /\ StoreUnitRead(second, sto.appended[j].pos, Failing).p
                      = sto.appended[j].p
    /\ \A pos \in {sto.size, sto.size + 1, sto.size + lenWidth} :
         StoreUnitRead(sto, pos, Failing).err = "EOF"

\* The second of two appended payloads was read back by the store opened
\* second on the file.
C28_Witness ==
  /\ sto.open /\ fault = "none" /\ sto.opens = 2
  /\ Len(sto.appended) >= 2
  /\ last.op = "Read" /\ last.err = "ok"
  /\ last.arg = sto.appended[2].pos
  /\ last.rec = sto.appended[2].p

\* C29: in every state reached through Append, Read and ReadAt, an Append
\* cut short by a write error included, store.size is the length of the
\* file plus the number of bytes in the write buffer.
C29_SizeIsFilePlusBuffer == sto.size = sto.flen + sto.n

\* The total length of the frames of the records appended with success at
\* the offsets in S.
RECURSIVE RecordBytes(_)
RecordBytes(S) ==
  IF S = {} THEN 0
  ELSE LET off == Min(S)
       IN FrameLen([value |-> written[off], offset |-> off]) + RecordBytes(S \ {off})

\* C30: in every state a segment's store.size is the sum of lenWidth +
\* len(payload) over the records the segment holds, also after an append
\* that failed at the index write.
C30_StoreSizeIsRecords ==
  LET o == objs[TheSegment]
  IN o.ssize = RecordBytes({off \in DOMAIN written : Holds(o, off)})

\* The callers inside Log.Append, and the callers whose Log.Read returned.
Appending == {u \in Callers : pc[u] \in {"locked", "stored", "indexed"}}
ReadDone == {t \in Callers : pc[t] = "rdone"}
\* The Append calls that returned offset O and held the lock before t did.
AppendedBefore(t, O) ==
  {u \in Returned : LockRank(u) < LockRank(t) /\ tv[u].off = O}
\* Segment b has the index entry of offset O, and the store file has the
\* frame of record rec at the entry's position.
WholeRecord(b, O, rec) ==
  LET ir == IndexRead(Mapped(W, b), objs[b].isize, O - objs[b].baseOffset)
  IN /\ ir.err = "ok"
     /\ FrameAt(StoreFile(W, b), ir.pos) = [err |-> "ok", rec |-> rec]

\* C31: a Log.Read(O) that runs concurrently with Log.Append calls never
\* observes a half-appended record: while a caller is inside Read no Append
\* is under way, and the Read returns OffsetOutOfRange when no Append of O
\* held the lock before it, and otherwise the record appended at O, whose
\* index entry and store frame are both written.
C31_ReadSeesWholeAppends ==
  /\ Readers # {} => Appending = {}
  /\ \A t \in ReadDone :
       IF AppendedBefore(t, tv[t].off) = {}
       THEN tv[t].err = "OffsetOutOfRange"
       ELSE /\ tv[t].err = "ok"
            /\ \A u \in AppendedBefore(t, tv[t].off) :
                 /\ tv[t].value = tv[u].value
                 /\ tv[t].cur = tv[t].off
                 /\ \E b \in Range(segments) :
                      WholeRecord(b, tv[t].off,
                                  [value |-> tv[u].value, offset |-> tv[t].off])

\* A Read returned the record of an Append that came before it, and another
\* Read of the same offset came too early.
C31_Witness ==
  \E t, e \in ReadDone : \E u \in Returned :
    /\ tv[t].err = "ok" /\ tv[t].off = tv[u].off /\ tv[t].value = tv[u].value
    /\ tv[e].err = "OffsetOutOfRange" /\ tv[e].off = tv[u].off
    /\ LockRank(e) < LockRank(u) /\ LockRank(u) < LockRank(t)

\* C32: Remove and Reset hold the log's exclusive lock for their whole
\* duration: once a caller has closed the segments, every step up to its
\* return (deleting the directory, rebuilding the segment list) is its own,
\* and no Append or Read step of another caller comes in between.
C32_RemoveResetExclusive ==
  [][\A t \in Removing : pc'[t] # pc[t]]_vars

\* The log is one empty open segment at the initial offset, which is active.
FreshLog ==
  /\ segments = <<cfg.InitialOffset>>
  /\ activeSegment = cfg.InitialOffset
  /\ ~Seg(1).closed
  /\ Seg(1).baseOffset = cfg.InitialOffset
  /\ Seg(1).nextOffset = cfg.InitialOffset
  /\ Seg(1).ssize = 0 /\ Seg(1).isize = 0

\* C33: Reset closes all segments, removes all data and reinitializes a new
\* log: a Reset of a log whose segments were open returns without error and
\* leaves exactly one empty segment at config.initialOffset, which is
\* active, so the next Append returns initialOffset and every offset is out
\* of range.
C33_ResetReinitializes ==
  (last.op = "Reset" /\ last.err # "closed") =>
    /\ last.err = "ok"
    /\ FreshLog
    /\ \A value \in Values : LogAppend(W, value, cfg).off = cfg.InitialOffset
    /\ \A off \in ReadOffsets : LogRead(W, off) = OutOfRange(off)

\* ------------------------------------------------------------ a Reader being read
\* Caller 1 takes Log.Reader() and reads the stream call by call while the
\* log is appended to, truncated and closed.  tv[1] holds the MultiReader:
\* its originReaders (store, off), the buffer length of the Read calls, the
\* bytes returned so far, and the frames of the records the log held when
\* Reader() returned.
ReaderIdle ==
  UNCHANGED <<cfg, nAppends, written, lastOff, last, mu, order, rpc, idx, sto, records>>

\* Log.Reader(): one originReader per segment, under the read lock.
ReaderOpen(n) ==
  /\ pc[1] = "idle"
  /\ LogOpen
  /\ pc' = [pc EXCEPT ![1] = "reading"]
  /\ tv' = [tv EXCEPT ![1] =
              [readers |-> [i \in 1..Len(segments) |-> [store |-> segments[i], off |-> 0]],
               n |-> n, data |-> <<>>, err |-> "ok", snap |-> RecordFrames]]
  /\ UNCHANGED <<dirExists, disk, objs, segments, activeSegment, fault>>
  /\ ReaderIdle

\* originReader.Read(p) with len(p) = n: store.ReadAt flushes the buffer and
\* reads the file at o.off.  The File of a closed or removed segment returns
\* os.ErrClosed.
OriginRead(w, r, n) ==
  IF r.store \notin DOMAIN w.objs THEN [w |-> w, data |-> <<>>, err |-> "closed"]
  ELSE IF FlushErr(w, r.store) # "ok"
  THEN [w |-> Flush(w, r.store), data |-> <<>>, err |-> FlushErr(w, r.store)]
  ELSE IF w.objs[r.store].closed THEN [w |-> w, data |-> <<>>, err |-> "closed"]
  ELSE LET w1 == Flush(w, r.store)
           rd == FileReadAt(StoreBytes(w1.disk[r.store].store), r.off, n)
       IN [w |-> w1, data |-> rd.data, err |-> rd.err]

\* One Read of the current originReader by the io.MultiReader: at io.EOF it
\* moves on to the next one, after the last one the stream ends.
ReaderRead ==
  /\ pc[1] = "reading"
  /\ LET s == tv[1]
         r == Head(s.readers)
         rd == OriginRead(W, r, s.n)
     IN IF s.readers = <<>>
        THEN /\ pc' = [pc EXCEPT ![1] = "eof"]
             /\ UNCHANGED <<tv, dirExists, disk, objs, segments, activeSegment, fault>>
        ELSE /\ Install(rd.w)
             /\ tv' = [tv EXCEPT ![1].readers =
                                   IF rd.err = "EOF" THEN Tail(s.readers)
                                   ELSE <<[r EXCEPT !.off = r.off + Len(rd.data)]>>
                                        \o Tail(s.readers),
                                 ![1].data = s.data \o rd.data,
                                 ![1].err = IF rd.err = "EOF" THEN "ok" ELSE rd.err]
             /\ pc' = [pc EXCEPT ![1] = IF rd.err \in {"ok", "EOF"} THEN "reading"
                                        ELSE "failed"]
  /\ ReaderIdle

NextReader ==
  \/ \E n \in BufLens : ReaderOpen(n)
  \/ ReaderRead
  \/ \E value \in Values : CallAppend(value)
  \/ \E lowest \in Lowests : CallTruncate(lowest)
  \/ CallClose

SpecReader == Init /\ [][NextReader]_vars

IsPrefix(p, q) == Len(p) <= Len(q) /\ p = SubSeq(q, 1, Len(p))

\* C34: the byte stream of Log.Reader() is a snapshot of the log at the
\* moment Reader() returned: read while other callers Append, Truncate or
\* Close, it meets no read error, what it has returned so far is a prefix
\* of the frames of the records present at that moment, and at its end it
\* is exactly those frames.
C34_ReaderSnapshot ==
  pc[1] \in {"reading", "eof", "failed"} =>
    /\ pc[1] # "failed"
    /\ tv[1].err = "ok"
    /\ IsPrefix(tv[1].data, tv[1].snap)
    /\ pc[1] = "eof" => tv[1].data = tv[1].snap

\* The step is a successful Append or Truncate that retains the active
\* segment.
AppendOrTruncate ==
  /\ ActiveRetained /\ ActiveRetained'
  /\ last'.op \in {"Append", "Truncate"}
  /\ last'.err = "ok"
OffsetsOrdered == ActiveRetained => LowestOffset(W) <= HighestOffset(W) + 1

\* C35: over successful Append and Truncate calls that retain the active
\* segment, LowestOffset() never decreases and HighestOffset() never
\* decreases, and LowestOffset() <= HighestOffset() + 1 in every state.
C35_OffsetsMonotone ==
  [][/\ OffsetsOrdered /\ OffsetsOrdered'
     /\ AppendOrTruncate =>
          /\ LowestOffset(W)' >= LowestOffset(W)
          /\ HighestOffset(W)' >= HighestOffset(W)]_vars

\* A Truncate after rollovers removed the first segments and retained the
\* active one: the lowest offset has moved up, the highest is the last
\* appended offset.
C35_Witness ==
  /\ last.op = "Truncate" /\ last.err = "ok"
  /\ ActiveRetained
  /\ LowestOffset(W) > cfg.InitialOffset + 1
  /\ HighestOffset(W) > LowestOffset(W)
  /\ lastOff = HighestOffset(W)

\* C36: for every L < HighestOffset(), Truncate(L) retains the active
\* segment, empty or not, and leaves it as it was: segments stays non-empty
\* with the open activeSegment last, so Append, LowestOffset and
\* HighestOffset keep working; only a Truncate(L) with L >= HighestOffset()
\* removes the active segment.
C36_TruncateRetainsActive ==
  [][(last'.op = "Truncate" /\ ActiveRetained) =>
       /\ last'.arg < HighestOffset(W) =>
            /\ segments' # <<>>
            /\ ActiveIsLast'
            /\ ActiveOpen'
            /\ activeSegment' = activeSegment
            /\ objs'[activeSegment] = objs[activeSegment]
            /\ HighestOffset(W)' = HighestOffset(W)
       /\ ~ActiveRetained' => last'.arg >= HighestOffset(W)]_vars

\* A Truncate(L) with L < HighestOffset() removed the first segment and
\* retained a full segment and the empty active segment.
C36_Witness ==
  /\ last.op = "Truncate" /\ last.err = "ok"
  /\ ActiveIsLast
  /\ last.arg < HighestOffset(W)
  /\ LowestOffset(W) > cfg.InitialOffset
  /\ Len(segments) = 2
  /\ objs[activeSegment].nextOffset = objs[activeSegment].baseOffset

\* ------------------------------------------------------------ the in-memory Log
\* server.Log of the HTTP server: Append gives the record the offset
\* len(l.records) and appends it; Read returns l.records[offset], or
\* ErrOffsetNotFound for offset >= len(l.records).
MemAppend(recs, value) ==
  LET off == Len(recs)
  IN [records |-> Append(recs, [value |-> value, offset |-> off]),
      off |-> off, err |-> "ok"]

MemRead(recs, off) ==
  IF off >= Len(recs) THEN [err |-> "ErrOffsetNotFound", rec |-> NoRecord]
  ELSE [err |-> "ok", rec |-> recs[off + 1]]

\* The same calls are made on the segmented Log and on the in-memory Log;
\* last holds what the segmented Log returned, last.mem what the in-memory
\* Log returned.
InitBoth == Init /\ cfg.InitialOffset = 0

BothIdle == UNCHANGED <<cfg, mu, pc, tv, order, rpc, idx, sto>>

BothAppend(value) ==
  /\ ActiveOpen
  /\ nAppends < MaxAppends
  /\ LET r == LogAppend(W, value, cfg)
         m == MemAppend(records, value)
     IN /\ Install(r.w)
        /\ records' = m.records
        /\ last' = [op |-> "Append", arg |-> value, off |-> r.off, err |-> r.err,
                    rec |-> NoRecord,
                    mem |-> [off |-> m.off, err |-> m.err, rec |-> NoRecord]]
        /\ written' = IF r.err = "ok" THEN Upd(written, r.off, value) ELSE written
        /\ lastOff' = IF r.err = "ok" THEN r.off ELSE lastOff
  /\ nAppends' = nAppends + 1
  /\ BothIdle

BothRead(off) ==
  /\ ActiveOpen
  /\ LET r == LogRead(W, off)
         m == MemRead(records, off)
     IN /\ Install(LogReadEffect(W, off))
        /\ last' = [op |-> "Read", arg |-> off, off |-> off, err |-> r.err,
                    rec |-> r.rec,
                    mem |-> [off |-> off, err |-> m.err, rec |-> m.rec]]
  /\ UNCHANGED <<nAppends, written, lastOff, records>>
  /\ BothIdle

NextBoth ==
  \/ \E value \in Values : BothAppend(value)
  \/ \E off \in ReadOffsets : BothRead(off)

SpecBoth == InitBoth /\ [][NextBoth]_vars

\* C37: with initialOffset 0 and no Truncate the segmented Log refines the
\* in-memory Log: for every sequence of Append and Read calls and every
\* segment size configuration both return the same offsets (the number of
\* earlier appends), the same records, and the out-of-range / not-found
\* error for the same offsets (those >= the number of appends).
C37_Refines ==
  /\ last.op = "Append" =>
       /\ last.err = "ok" /\ last.mem.err = "ok"
       /\ last.off = last.mem.off
       /\ last.off = Len(records) - 1
  /\ last.op = "Read" =>
       /\ (last.err = "OffsetOutOfRange") = (last.mem.err = "ErrOffsetNotFound")
       /\ (last.err = "OffsetOutOfRange") = (last.arg >= Len(records))
       /\ last.mem.err = "ok" => (last.err = "ok" /\ last.rec = last.mem.rec)

====
